---- MODULE Spec2Model ----
(***************************************************************************)
(* Whitelist registry, token ledger and access controller of the audio     *)
(* tour application (src/supabase_manager.py, src/auth_manager.py,         *)
(* src/simple_audio_tour.py).                                              *)
(*                                                                         *)
(* The remote table whitelist_users is a set of rows.  A method of         *)
(* SupabaseManager that makes one datastore call is one operator and one   *)
(* action.  A method that makes several is one operator and one action per *)
(* datastore call: the caller keeps its place (pc), its email (arg) and    *)
(* its local variables (locals) between them, and each call is made on the *)
(* table as it is by then.  Spec runs the calls one after another;         *)
(* SpecRace, SpecUsageRace, SpecApp and SpecTokens let the steps of        *)
(* different callers interleave.  A script run of main() is likewise one   *)
(* action per datastore call it makes, and it is made only by a manager    *)
(* that has a client: without one _init_supabase ends the run.             *)
(*                                                                         *)
(* Two things the program depends on are fixed outside src/: the settings  *)
(* of the environment (environ) and the version of the client library,     *)
(* which decides what maybe_single().execute() answers when no row matches *)
(* (zero_rows).  Both are drawn at start and never change.                 *)
(***************************************************************************)
EXTENDS Integers, FiniteSets, Sequences, TLC

VARIABLES
    environ,          \* os.environ: whether SUPABASE_URL and SUPABASE_ANON_KEY are set
    zero_rows,        \* what maybe_single().execute() answers when no row matches
    client,           \* SupabaseManager.client is set (TRUE) or None (FALSE)
    whitelist_users,  \* the rows of the remote table whitelist_users
    whitelist,        \* the rows of the remote table whitelist
    session,          \* st.session_state: a function from the keys set to their values
    guide,            \* st.session_state.guide, the SimpleTourGuide of the session
    call,             \* the call that has just returned, with its arguments
    ret,              \* what that call returned
    added,            \* per email: tokens reported for its row (the latest, if deleted)
    month,            \* calendar month of datetime.now(), counted from the start
    usage_month,      \* per email: the month of the latest write of tokens_used
    pc,               \* per caller: the datastore call it is about to make, or "idle"
    arg,              \* per caller: the email of the call in flight
    user_token_usage, \* the rows of the remote table user_token_usage
    locals,           \* per caller: the local variables of the call in flight
    generator         \* the AudioTourGenerator the backup script built last

vars == <<environ, zero_rows, client, whitelist_users, whitelist, session, guide,
          call, ret, added, month, usage_month, pc, arg, user_token_usage, locals,
          generator>>

(***************************************************************************)
(* Bounds of the model and constants of the program.                       *)
(***************************************************************************)
MaxUsed == 2700             \* no report is made that would take a counter beyond this total
MaxMonth == 1               \* the clock is not advanced beyond this month
DefaultTokenLimit == 10000  \* "token_limit": 10000 and the fallback of the check
Null == -1                  \* a column the datastore holds NULL (None in Python)

Emails == {"ana@x.io", "bo@x.io"}
EmailArgs == Emails \cup {""}
Roles == {"user", "admin"}
TokenAmounts == {900, 1800}     \* tokens reported to update_token_usage
RequiredTokens == {0, 50, 150}    \* required_tokens asked of check_token_usage
Callers == {"s1", "s2"}

\* the email the concurrent callers and the administrators all work on
Contested == {"ana@x.io"}

Row(e, role, active, used, limit) ==
    [email |-> e, role |-> role, is_active |-> active,
     tokens_used |-> used, token_limit |-> limit]

(***************************************************************************)
(* The datastore gateway: what the table calls of the client do.           *)
(***************************************************************************)
Matching(tbl, email) == {r \in tbl : r.email = email}

\* What maybe_single().execute() answers when no row matches is the choice of
\* the client library, whose version src/ does not fix: a response whose data
\* is empty ("empty"), or no response at all, None ("None").
ZeroRowAnswers == {"empty", "None"}

\* .select(...).eq("email", email).maybe_single().execute()
\* kind "raise": the call raised; "row": result.data is the one row; "empty":
\* result.data is empty; "no_response": the call returned None.
MaybeSingle(tbl, email, fail) ==
    IF fail \/ Cardinality(Matching(tbl, email)) > 1
    THEN [kind |-> "raise"]
    ELSE IF Matching(tbl, email) = {}
         THEN [kind |-> IF zero_rows = "None" THEN "no_response" ELSE "empty"]
         ELSE [kind |-> "row", row |-> CHOOSE r \in Matching(tbl, email) : TRUE]

\* The method leaves its try block for its except clause: the call raised, or
\* it returned None and reading result.data raised AttributeError.
Excepts(res) == res.kind \in {"raise", "no_response"}

\* a table whitelist_users that takes a second row for a stored email
InsertConflicts_without_key(tbl, row) == FALSE

\* .insert(row).execute() is refused with an exception when the table holds a
\* row of that email.  The uniqueness of email is a constraint of the storage
\* layer: the table's declaration is not part of src/, the specification names
\* email the unique key of an entry.
InsertConflicts(tbl, row) == Matching(tbl, row.email) # {}

Insert(tbl, row) == tbl \cup {row}

\* .update(changes).eq("email", email).execute(): the rows rewritten
UpdateRows(tbl, email, changes) ==
    {[f \in DOMAIN r |-> IF f \in DOMAIN changes THEN changes[f] ELSE r[f]] :
        r \in Matching(tbl, email)}

Update(tbl, email, changes) ==
    (tbl \ Matching(tbl, email)) \cup UpdateRows(tbl, email, changes)

\* .upsert(values).execute(): rewrite the row its insert would conflict with,
\* or insert one whose columns missing from the payload are left to the
\* datastore (NULL)
Upsert(tbl, email, role) ==
    IF InsertConflicts(tbl, Row(email, role, TRUE, Null, Null))
    THEN Update(tbl, email, [role |-> role, is_active |-> TRUE])
    ELSE Insert(tbl, Row(email, role, TRUE, Null, Null))

\* a delete that keeps the row and marks it inactive
Delete_deactivating(tbl, email) ==
    (tbl \ Matching(tbl, email)) \cup {[r EXCEPT !.is_active = FALSE] : r \in Matching(tbl, email)}

\* .delete().eq("email", email).execute()
Delete(tbl, email) == tbl \ Matching(tbl, email)

(***************************************************************************)
(* SupabaseManager: authentication methods.                                *)
(***************************************************************************)
NotInWhitelist == [exists |-> FALSE, is_active |-> FALSE, role |-> "user"]

\* check_email_in_whitelist answering a failed lookup as an admitted user
check_email_in_whitelist_fail_open(cl, tbl, email, fail) ==
    IF ~cl \/ email = ""
    THEN NotInWhitelist
    ELSE LET res == MaybeSingle(tbl, email, fail) IN
         IF Excepts(res) THEN [exists |-> TRUE, is_active |-> TRUE, role |-> "user"]
         ELSE IF res.kind = "empty" THEN NotInWhitelist
         ELSE [exists |-> TRUE, is_active |-> res.row.is_active, role |-> res.row.role]

check_email_in_whitelist(cl, tbl, email, fail) ==
    IF ~cl \/ email = ""
    THEN NotInWhitelist
    ELSE LET res == MaybeSingle(tbl, email, fail) IN
         IF Excepts(res) THEN NotInWhitelist
         ELSE IF res.kind = "empty" THEN NotInWhitelist
         ELSE [exists |-> TRUE, is_active |-> res.row.is_active, role |-> res.row.role]

\* is_admin answering a failed lookup as an administrator
is_admin_fail_open(cl, tbl, email, fail) ==
    IF ~cl \/ email = ""
    THEN FALSE
    ELSE LET res == MaybeSingle(tbl, email, fail) IN
         IF Excepts(res) THEN TRUE
         ELSE res.kind = "row" /\ res.row.role = "admin"

\* is_admin comparing the role with a name no row carries
is_admin_wrong_role(cl, tbl, email, fail) ==
    IF ~cl \/ email = ""
    THEN FALSE
    ELSE LET res == MaybeSingle(tbl, email, fail) IN
         IF Excepts(res) THEN FALSE
         ELSE res.kind = "row" /\ res.row.role = "administrator"

\* the truth value of what is_admin returns (for an email without row the
\* method returns the empty result.data itself, which is false, or the False of
\* its except clause)
is_admin(cl, tbl, email, fail) ==
    IF ~cl \/ email = ""
    THEN FALSE
    ELSE LET res == MaybeSingle(tbl, email, fail) IN
         IF Excepts(res) THEN FALSE
         ELSE res.kind = "row" /\ res.row.role = "admin"

ErrorResponse(msg) == [success |-> FALSE, message |-> msg, status |-> "error"]

\* request_access_insert storing the new entry as already active
request_access_insert_active(tbl, email, outcome) ==
    IF outcome = "raise" \/ InsertConflicts(tbl, Row(email, "user", TRUE, 0, DefaultTokenLimit))
    THEN [ret |-> ErrorResponse("Error en el servidor"), tbl |-> tbl]
    ELSE IF outcome = "empty"
    THEN [ret |-> ErrorResponse("No se pudo crear la solicitud"), tbl |-> tbl]
    ELSE [ret |-> [success |-> TRUE, message |-> "Solicitud de acceso creada",
                   status |-> "pending"],
          tbl |-> Insert(tbl, Row(email, "user", TRUE, 0, DefaultTokenLimit))]

\* The insert of request_access and what the handler returns after it.
\* outcome: "ok", "raise" (the call raised) or "empty" (no result.data came back).
request_access_insert(tbl, email, outcome) ==
    IF outcome = "raise" \/ InsertConflicts(tbl, Row(email, "user", FALSE, 0, DefaultTokenLimit))
    THEN [ret |-> ErrorResponse("Error en el servidor"), tbl |-> tbl]
    ELSE IF outcome = "empty"
    THEN [ret |-> ErrorResponse("No se pudo crear la solicitud"), tbl |-> tbl]
    ELSE [ret |-> [success |-> TRUE, message |-> "Solicitud de acceso creada",
                   status |-> "pending"],
          tbl |-> Insert(tbl, Row(email, "user", FALSE, 0, DefaultTokenLimit))]

\* The answer of request_access for an email its lookup found.
request_access_existing(status) ==
    IF status.is_active
    THEN [success |-> TRUE, message |-> "Esta cuenta ya esta activa", status |-> "active"]
    ELSE [success |-> TRUE, message |-> "Ya tienes una solicitud pendiente",
          status |-> "pending"]

\* request_access finding nothing whatever the table holds
request_access_lookup_finding_nothing(cl, tbl, email, fail) ==
    IF ~cl \/ email = ""
    THEN [done |-> TRUE, ret |-> ErrorResponse("Error de configuracion del sistema")]
    ELSE [done |-> FALSE, ret |-> FALSE]

\* request_access up to its lookup: done tells whether the method returns
\* there (with ret) or goes on to its insert
request_access_lookup(cl, tbl, email, fail) ==
    IF ~cl \/ email = ""
    THEN [done |-> TRUE, ret |-> ErrorResponse("Error de configuracion del sistema")]
    ELSE LET current_status == check_email_in_whitelist(cl, tbl, email, fail) IN
         IF current_status.exists
         THEN [done |-> TRUE, ret |-> request_access_existing(current_status)]
         ELSE [done |-> FALSE, ret |-> FALSE]

\* approve_user returns a dict, or the bare False of its except clause.
ApproveResult(success, message, user) ==
    [is_dict |-> TRUE, success |-> success, message |-> message, user |-> user]

NoUser == [email |-> ""]

\* approve_user up to its lookup: done tells whether the method returns there
\* or goes on to its update
approve_user_lookup(cl, tbl, email, fail) ==
    IF ~cl \/ email = ""
    THEN [done |-> TRUE, ret |-> ApproveResult(FALSE, "Parametros invalidos", NoUser)]
    ELSE LET current_status == check_email_in_whitelist(cl, tbl, email, fail) IN
         IF ~current_status.exists
         THEN [done |-> TRUE, ret |-> ApproveResult(FALSE, "El usuario no existe", NoUser)]
         ELSE IF current_status.is_active
         THEN [done |-> TRUE,
               ret |-> ApproveResult(TRUE, "El usuario ya esta activo",
                          [email |-> email, is_active |-> TRUE,
                           role |-> current_status.role])]
         ELSE [done |-> FALSE, ret |-> FALSE]

\* the update of approve_user answering success without writing the entry
approve_user_update_without_write(tbl, email, outcome) ==
    IF outcome = "raise"
    THEN [ret |-> [is_dict |-> FALSE, value |-> FALSE], tbl |-> tbl]
    ELSE IF outcome = "empty" \/ UpdateRows(tbl, email, [is_active |-> TRUE]) = {}
    THEN [ret |-> ApproveResult(FALSE, "No se pudo actualizar el usuario", NoUser),
          tbl |-> tbl]
    ELSE [ret |-> ApproveResult(TRUE, "Usuario aprobado exitosamente",
                     CHOOSE r \in UpdateRows(tbl, email, [is_active |-> TRUE]) : TRUE),
          tbl |-> tbl]

\* The update of approve_user, made on the table as it is by then, and what the
\* method returns after it: result.data[0] is the row as rewritten.
\* outcome: "ok", "raise" (the call raised) or "empty" (no result.data came back).
approve_user_update(tbl, email, outcome) ==
    IF outcome = "raise"
    THEN [ret |-> [is_dict |-> FALSE, value |-> FALSE], tbl |-> tbl]
    ELSE IF outcome = "empty" \/ UpdateRows(tbl, email, [is_active |-> TRUE]) = {}
    THEN [ret |-> ApproveResult(FALSE, "No se pudo actualizar el usuario", NoUser),
          tbl |-> tbl]
    ELSE [ret |-> ApproveResult(TRUE, "Usuario aprobado exitosamente",
                     CHOOSE r \in UpdateRows(tbl, email, [is_active |-> TRUE]) : TRUE),
          tbl |-> Update(tbl, email, [is_active |-> TRUE])]

add_email_to_whitelist(cl, tbl, email, role, fail) ==
    IF ~cl \/ email = "" THEN [ret |-> FALSE, tbl |-> tbl]
    ELSE IF fail THEN [ret |-> FALSE, tbl |-> tbl]
    ELSE [ret |-> TRUE, tbl |-> Upsert(tbl, email, role)]

\* remove_email_from_whitelist deleting only an entry that is still pending
remove_email_from_whitelist_pending_only(cl, tbl, email, fail) ==
    IF ~cl \/ email = "" THEN [ret |-> FALSE, tbl |-> tbl]
    ELSE IF fail THEN [ret |-> FALSE, tbl |-> tbl]
    ELSE [ret |-> TRUE, tbl |-> tbl \ {r \in Matching(tbl, email) : ~r.is_active}]

remove_email_from_whitelist(cl, tbl, email, fail) ==
    IF ~cl \/ email = "" THEN [ret |-> FALSE, tbl |-> tbl]
    ELSE IF fail THEN [ret |-> FALSE, tbl |-> tbl]
    ELSE [ret |-> TRUE, tbl |-> Delete(tbl, email)]

reject_user(cl, tbl, email, fail) == remove_email_from_whitelist(cl, tbl, email, fail)

\* update_user_role sending the entry back to pending with its new role
update_user_role_deactivating(cl, tbl, email, role, fail) ==
    IF ~cl \/ email = "" \/ role = "" THEN [ret |-> FALSE, tbl |-> tbl]
    ELSE IF fail THEN [ret |-> FALSE, tbl |-> tbl]
    ELSE [ret |-> UpdateRows(tbl, email, [role |-> role]) # {},
          tbl |-> Update(tbl, email, [role |-> role, is_active |-> FALSE])]

update_user_role(cl, tbl, email, role, fail) ==
    IF ~cl \/ email = "" \/ role = "" THEN [ret |-> FALSE, tbl |-> tbl]
    ELSE IF fail THEN [ret |-> FALSE, tbl |-> tbl]
    ELSE [ret |-> UpdateRows(tbl, email, [role |-> role]) # {},
          tbl |-> Update(tbl, email, [role |-> role])]

\* get_all_whitelist_emails: email, role and is_active of every row (their
\* order, by created_at, is not modelled), none without a client or when the
\* select raised
get_all_whitelist_emails(cl, tbl, fail) ==
    IF ~cl \/ fail THEN {}
    ELSE {[email |-> r.email, role |-> r.role, is_active |-> r.is_active] : r \in tbl}

\* The methods add_to_whitelist and remove_from_whitelist work on the table
\* whitelist; they return [ret, wl]: the value returned and the table as the
\* call leaves it.  The upsert rewrites the row of the email or inserts one.
WhitelistRow(e, admin) == [email |-> e, is_approved |-> TRUE, is_admin |-> admin]

add_to_whitelist(cl, wl, email, admin, fail) ==
    IF ~cl THEN [ret |-> FALSE, wl |-> wl]
    ELSE IF fail THEN [ret |-> FALSE, wl |-> wl]
    ELSE [ret |-> TRUE,
          wl |-> {r \in wl : r.email # email} \cup {WhitelistRow(email, admin)}]

remove_from_whitelist(cl, wl, email, fail) ==
    IF ~cl THEN [ret |-> FALSE, wl |-> wl]
    ELSE IF fail THEN [ret |-> FALSE, wl |-> wl]
    ELSE [ret |-> TRUE, wl |-> {r \in wl : r.email # email}]

(***************************************************************************)
(* SupabaseManager: token management.                                      *)
(***************************************************************************)
Infinity == -2              \* float('inf')

\* Python's "x or d": d when x is None or 0
OrElse(x, d) == IF x = Null \/ x = 0 THEN d ELSE x

\* a <= limit, where the limit may be float('inf')
WithinLimit(a, limit) == limit = Infinity \/ a <= limit

TokenStatus(used, limit, required) ==
    [can_proceed |-> WithinLimit(used + required, limit),
     tokens_used |-> used,
     tokens_limit |-> limit,
     is_admin |-> FALSE,
     message |-> IF limit # Infinity THEN "Usados: used/limit" ELSE "Uso ilimitado"]

\* check_token_usage with a guard on the email alone: without a client is_admin
\* answers False, self.client.table raises inside the try and the except
\* clause allows the request
check_token_usage_role_without_guard(cl, tbl, email, fail_admin) ==
    IF email = ""
    THEN [done |-> TRUE, ret |-> [can_proceed |-> FALSE, reason |-> "Error de autenticacion"]]
    ELSE IF ~cl
    THEN [done |-> TRUE,
          ret |-> [can_proceed |-> TRUE, tokens_used |-> 0, tokens_limit |-> Infinity,
                   is_admin |-> FALSE,
                   message |-> "Error al verificar tokens, acceso permitido"]]
    ELSE IF is_admin(cl, tbl, email, fail_admin)
    THEN [done |-> TRUE,
          ret |-> [can_proceed |-> TRUE, tokens_used |-> 0, tokens_limit |-> Infinity,
                   is_admin |-> TRUE, message |-> "Admin sin restricciones"]]
    ELSE [done |-> FALSE, ret |-> FALSE]

\* check_token_usage up to its role lookup: done tells whether the method
\* returns there or goes on to read the counters
check_token_usage_role(cl, tbl, email, fail_admin) ==
    IF ~cl \/ email = ""
    THEN [done |-> TRUE, ret |-> [can_proceed |-> FALSE, reason |-> "Error de autenticacion"]]
    ELSE IF is_admin(cl, tbl, email, fail_admin)
    THEN [done |-> TRUE,
          ret |-> [can_proceed |-> TRUE, tokens_used |-> 0, tokens_limit |-> Infinity,
                   is_admin |-> TRUE, message |-> "Admin sin restricciones"]]
    ELSE [done |-> FALSE, ret |-> FALSE]

\* the read of check_token_usage denying the request when it raised
check_token_usage_read_fail_closed(tbl, email, required_tokens, fail) ==
    LET res == MaybeSingle(tbl, email, fail) IN
    IF res.kind # "row"
    THEN [can_proceed |-> FALSE, reason |-> "Usuario no encontrado"]
    ELSE TokenStatus(OrElse(res.row.tokens_used, 0),
                     OrElse(res.row.token_limit, DefaultTokenLimit),
                     required_tokens)

\* The read of tokens_used and token_limit by check_token_usage, made on the
\* table as it is by then, and what the method returns after it.
check_token_usage_read(tbl, email, required_tokens, fail) ==
    LET res == MaybeSingle(tbl, email, fail) IN
    IF Excepts(res)
    THEN [can_proceed |-> TRUE, tokens_used |-> 0, tokens_limit |-> Infinity,
          is_admin |-> FALSE,
          message |-> "Error al verificar tokens, acceso permitido"]
    ELSE IF res.kind = "empty"
    THEN [can_proceed |-> FALSE, reason |-> "Usuario no encontrado"]
    ELSE LET tokens_used == OrElse(res.row.tokens_used, 0)
             token_limit == OrElse(res.row.token_limit, DefaultTokenLimit)
         IN  TokenStatus(tokens_used,
                         IF token_limit = 0 THEN Infinity ELSE token_limit,
                         required_tokens)

\* update_token_usage counting the reports of administrators as well
update_token_usage_role_counting_admins(cl, tbl, email, fail_admin) ==
    IF ~cl \/ email = "" THEN [done |-> TRUE, ret |-> FALSE]
    ELSE [done |-> FALSE, ret |-> FALSE]

\* update_token_usage up to its role lookup, which comes before the guard on
\* the client and the email: done tells whether the method returns there
update_token_usage_role(cl, tbl, email, fail_admin) ==
    IF is_admin(cl, tbl, email, fail_admin) THEN [done |-> TRUE, ret |-> TRUE]
    ELSE IF ~cl \/ email = "" THEN [done |-> TRUE, ret |-> FALSE]
    ELSE [done |-> FALSE, ret |-> FALSE]

\* The read of tokens_used by update_token_usage: the method returns True from
\* its except clause, False when result.data is empty, and goes on to its write
\* with current_tokens otherwise.
update_token_usage_read(tbl, email, fail) ==
    LET res == MaybeSingle(tbl, email, fail) IN
    IF Excepts(res) THEN [done |-> TRUE, ret |-> TRUE, current_tokens |-> 0]
    ELSE IF res.kind = "empty" THEN [done |-> TRUE, ret |-> FALSE, current_tokens |-> 0]
    ELSE [done |-> FALSE, ret |-> FALSE,
          current_tokens |-> OrElse(res.row.tokens_used, 0)]

\* The write of update_token_usage: new_tokens = current_tokens + tokens_used
\* goes to the row as it is by then; the method returns True also when the
\* write raised.
update_token_usage_write(tbl, email, current_tokens, tokens_used, fail_write) ==
    IF fail_write THEN [ret |-> TRUE, tbl |-> tbl]
    ELSE [ret |-> TRUE,
          tbl |-> Update(tbl, email, [tokens_used |-> current_tokens + tokens_used])]

\* The token panel's methods work on the table user_token_usage, whose rows
\* are keyed by user_email.
UsageRow(e, used, limit) == [user_email |-> e, tokens_used |-> used, tokens_limit |-> limit]

MatchingUsage(usage, email) == {r \in usage : r.user_email = email}

\* get_all_token_usage: the rows of user_token_usage, none without a client or
\* when the select raised
get_all_token_usage(cl, usage, fail) == IF ~cl \/ fail THEN {} ELSE usage

\* update_token_limit and reset_token_usage return [ret, tbl, usage]: the value
\* returned, whitelist_users and user_token_usage as the call leaves them.
update_token_limit(cl, tbl, usage, email, new_limit, fail) ==
    IF ~cl THEN [ret |-> FALSE, tbl |-> tbl, usage |-> usage]
    ELSE IF fail THEN [ret |-> FALSE, tbl |-> tbl, usage |-> usage]
    ELSE [ret |-> TRUE, tbl |-> tbl,
          usage |-> IF MatchingUsage(usage, email) # {}
                    THEN (usage \ MatchingUsage(usage, email))
                         \cup {[r EXCEPT !.tokens_limit = new_limit] :
                                  r \in MatchingUsage(usage, email)}
                    ELSE usage \cup {UsageRow(email, Null, new_limit)}]

reset_token_usage(cl, tbl, usage, email, fail) ==
    IF ~cl THEN [ret |-> FALSE, tbl |-> tbl, usage |-> usage]
    ELSE IF fail THEN [ret |-> FALSE, tbl |-> tbl, usage |-> usage]
    ELSE [ret |-> TRUE, tbl |-> tbl,
          usage |-> (usage \ MatchingUsage(usage, email))
                    \cup {[r EXCEPT !.tokens_used = 0] : r \in MatchingUsage(usage, email)}]

(***************************************************************************)
(* AuthManager: the login form, logout, and the session.                   *)
(***************************************************************************)
Lower == {"a","b","c","d","e","f","g","h","i","j","k","l","m",
          "n","o","p","q","r","s","t","u","v","w","x","y","z"}
Upper == {"A","B","C","D","E","F","G","H","I","J","K","L","M",
          "N","O","P","Q","R","S","T","U","V","W","X","Y","Z"}
Digit == {"0","1","2","3","4","5","6","7","8","9"}
LocalChars == Lower \cup Upper \cup Digit \cup {".", "_", "%", "+", "-"}
DomainChars == Lower \cup Upper \cup Digit \cup {".", "-"}

\* what the form can be submitted with, and the characters of each text
LoginInputs == Emails \cup {"", "bo@x"}

Chars(text) ==
    CASE text = "ana@x.io" -> <<"a","n","a","@","x",".","i","o">>
      [] text = "bo@x.io"  -> <<"b","o","@","x",".","i","o">>
      [] text = "bo@x"     -> <<"b","o","@","x">>
      [] OTHER             -> << >>

\* re.match(r'^[a-zA-Z0-9._%+-]+@[a-zA-Z0-9.-]+\.[a-zA-Z]{2,}$', s) on a
\* sequence of characters: i is the place of the "@", j of the last group's dot
MatchesEmailPattern(s) ==
    \E i \in 2..Len(s) : \E j \in (i + 2)..(Len(s) - 2) :
        /\ \A k \in 1..(i - 1) : s[k] \in LocalChars
        /\ s[i] = "@"
        /\ \A k \in (i + 1)..(j - 1) : s[k] \in DomainChars
        /\ s[j] = "."
        /\ \A k \in (j + 1)..Len(s) : s[k] \in Lower \cup Upper

\* the pattern without its last group: ^[a-zA-Z0-9._%+-]+@[a-zA-Z0-9.-]+$
_is_valid_email_without_tld(email) ==
    LET s == Chars(email) IN
    \E i \in 2..(Len(s) - 1) :
        /\ \A k \in 1..(i - 1) : s[k] \in LocalChars
        /\ s[i] = "@"
        /\ \A k \in (i + 1)..Len(s) : s[k] \in DomainChars

\* "$" also matches just before a newline that ends the text
_is_valid_email(email) ==
    LET s == Chars(email) IN
    \/ MatchesEmailPattern(s)
    \/ Len(s) > 0 /\ s[Len(s)] = "\n" /\ MatchesEmailPattern(SubSeq(s, 1, Len(s) - 1))

NoSession == [k \in {} |-> FALSE]

SetKeys(sess, changes) ==
    [k \in DOMAIN sess \cup DOMAIN changes |->
        IF k \in DOMAIN changes THEN changes[k] ELSE sess[k]]

DelKeys(sess, keys) == [k \in DOMAIN sess \ keys |-> sess[k]]

\* st.session_state.get(key, default)
SessionGet(sess, key, default) == IF key \in DOMAIN sess THEN sess[key] ELSE default

\* check_authentication() of simple_audio_tour.py
check_authentication(sess) ==
    IF "authenticated" \in DOMAIN sess THEN sess ELSE SetKeys(sess, [authenticated |-> FALSE])

IsAuthenticated(sess) == "authenticated" \in DOMAIN sess /\ sess["authenticated"]

\* main() before it draws the page: the keys tour_text, audio_data and
\* is_generating are set where the session does not hold them
main_session_defaults(sess) ==
    SetKeys([tour_text |-> "", audio_data |-> Null, is_generating |-> FALSE], sess)

\* the form admitting every email that has an entry, pending or active
show_login_form_submit_admitting_pending(cl, tbl, sess, email, fail) ==
    IF email = "" \/ ~_is_valid_email(email)
    THEN [done |-> TRUE, session |-> sess,
          ret |-> [outcome |-> "invalid", shown |-> "Por favor ingresa un email valido",
                   checked |-> FALSE, requested |-> FALSE]]
    ELSE LET user_status == check_email_in_whitelist(cl, tbl, email, fail) IN
         IF user_status.exists
         THEN [done |-> TRUE,
               session |-> SetKeys(sess, [authenticated |-> TRUE, user_email |-> email,
                                          is_admin |-> (user_status.role = "admin")]),
               ret |-> [outcome |-> "admitted", shown |-> "Bienvenido",
                        checked |-> TRUE, requested |-> FALSE]]
         ELSE [done |-> FALSE, session |-> sess, ret |-> FALSE]

\* show_login_form with the form submitted, up to its own lookup: done tells
\* whether the run ends there, with ret the outcome shown and which of
\* check_email_in_whitelist and request_access it called, or goes on to
\* request_access
show_login_form_submit(cl, tbl, sess, email, fail) ==
    IF email = ""
    THEN [done |-> TRUE, session |-> sess,
          ret |-> [outcome |-> "invalid", shown |-> "Por favor ingresa tu email",
                   checked |-> FALSE, requested |-> FALSE]]
    ELSE IF ~_is_valid_email(email)
    THEN [done |-> TRUE, session |-> sess,
          ret |-> [outcome |-> "invalid", shown |-> "Por favor ingresa un email valido",
                   checked |-> FALSE, requested |-> FALSE]]
    ELSE LET user_status == check_email_in_whitelist(cl, tbl, email, fail) IN
         IF user_status.exists /\ user_status.is_active
         THEN [done |-> TRUE,
               session |-> SetKeys(sess, [authenticated |-> TRUE, user_email |-> email,
                                          is_admin |-> (user_status.role = "admin")]),
               ret |-> [outcome |-> "admitted", shown |-> "Bienvenido",
                        checked |-> TRUE, requested |-> FALSE]]
         ELSE IF user_status.exists
         THEN [done |-> TRUE, session |-> sess,
               ret |-> [outcome |-> "pending",
                        shown |-> "Tu cuenta esta pendiente de aprobacion",
                        checked |-> TRUE, requested |-> FALSE]]
         ELSE [done |-> FALSE, session |-> sess, ret |-> FALSE]

\* what the form shows once request_access has returned request_result
show_login_form_requested(request_result) ==
    [outcome |-> "requested", checked |-> TRUE, requested |-> TRUE,
     shown |-> request_result.message,
     success |-> request_result.success,
     status |-> request_result.status]

logout(sess) == DelKeys(sess, {"authenticated", "user_email"})

\* the two sidebar buttons main() draws for an administrator; each names the
\* session key it toggles
PanelButtons == {"show_admin", "show_token_management"}

\* main() lines 285-295: the buttons are drawn when is_admin answered True, and
\* the one pressed in this run ("none" when neither was) toggles its key
main_admin_buttons(sess, admin, button) ==
    IF admin /\ button \in PanelButtons
    THEN SetKeys(sess, [k \in {button} |-> ~SessionGet(sess, button, FALSE)])
    ELSE sess

\* main() lines 297-304: the panel the run draws and returns after, or the page
main_panel(sess) ==
    IF SessionGet(sess, "show_admin", FALSE) THEN "main_admin_panel"
    ELSE IF SessionGet(sess, "show_token_management", FALSE) THEN "main_token_panel"
    ELSE "main_check_role"

\* get_pending_approvals: the emails of the rows with is_active = False (the
\* panel draws one pair of buttons per email; their order is not modelled)
get_pending_approvals(cl, tbl, fail) ==
    IF ~cl \/ fail THEN {} ELSE {r.email : r \in {x \in tbl : ~x.is_active}}

\* Python's truth test of what approve_user returned: a dict with keys is
\* true whatever its "success" holds, the bare False is false
Truthy(result) == IF result.is_dict THEN TRUE ELSE result.value

\* the "Aceptar" button of show_admin_panel once approve_user has returned:
\* if self.supabase.approve_user(email): st.success(...) else: st.error(...)
show_admin_panel_approve(result) ==
    [shown |-> IF Truthy(result) THEN "success" ELSE "error", result |-> result]

(***************************************************************************)
(* The token panel of simple_audio_tour.py (show_token_management).        *)
(***************************************************************************)
\* the rows come ordered by user_email
EmailOrder == <<"ana@x.io", "bo@x.io">>

\* the place of an email in that order
Place(e) == CHOOSE i \in 1..Len(EmailOrder) : EmailOrder[i] = e

\* the panel draws a row: f"{tokens_used:,}" and f"{tokens_limit:,}" raise on
\* None, and number_input(min_value=1000, value=tokens_limit) on a lower value
Renders(r) == r.tokens_used # Null /\ r.tokens_limit # Null /\ r.tokens_limit >= 1000

\* The buttons of email e are drawn: its row is listed, and it and every row
\* listed before it render (an exception ends the loop over the rows).
ButtonsDrawn(rows, e) ==
    /\ MatchingUsage(rows, e) # {}
    /\ \A r \in rows : Place(r.user_email) <= Place(e) => Renders(r)

(***************************************************************************)
(* SimpleTourGuide of simple_audio_tour.py.                                *)
(***************************************************************************)
NoEmail == ""        \* user_email = None
NoGuide == [built |-> FALSE]

\* SimpleTourGuide.__init__: the module does not import SupabaseManager, so the
\* constructor raises NameError when it is given a user_email
SimpleTourGuide_init(user_email) ==
    IF user_email # NoEmail
    THEN NoGuide
    ELSE [built |-> TRUE, user_email |-> user_email, supabase |-> FALSE]

\* the guide main() puts in the session: SimpleTourGuide(api_key=OPENAI_API_KEY)
main_guide(g) == IF g.built THEN g ELSE SimpleTourGuide_init(NoEmail)

\* the status of a ledger that was not asked
NoStatus == [can_proceed |-> FALSE]

\* _check_token_limit: consulted tells whether the ledger was asked at all,
\* status is what check_token_usage answered when it was
_check_token_limit(g, status) ==
    IF g.user_email = NoEmail \/ ~g.supabase
    THEN [consulted |-> FALSE, can_proceed |-> TRUE]
    ELSE [consulted |-> TRUE, can_proceed |-> status.can_proceed]

\* generate_tour_text: status is the answer of the ledger (when it is asked),
\* api_ok the outcome of chat.completions.create and used_tokens the
\* response's usage.total_tokens; reported tells whether the method calls
\* update_token_usage, and reported_tokens with what amount
generate_tour_text(g, status, estimated_tokens, api_ok, used_tokens) ==
    LET token_check == _check_token_limit(g, status)
        reports == g.user_email # NoEmail /\ g.supabase
        amount == IF api_ok THEN used_tokens ELSE estimated_tokens
    IN  IF ~token_check.can_proceed
        THEN [consulted |-> token_check.consulted, can_proceed |-> FALSE,
              api_called |-> FALSE, reported |-> FALSE, raised |-> TRUE,
              reported_tokens |-> 0]
        ELSE [consulted |-> token_check.consulted, can_proceed |-> TRUE,
              api_called |-> TRUE, reported |-> reports, raised |-> ~api_ok,
              reported_tokens |-> IF reports THEN amount ELSE 0]

(***************************************************************************)
(* The state machine.  A caller is a thread of the server: it is idle or   *)
(* inside one call, about to make the datastore call its pc names.  The    *)
(* arguments and the outcome of each datastore call are arbitrary; an      *)
(* outcome is drawn only for a datastore call the method really makes.     *)
(***************************************************************************)
InsertOutcomes == {"ok", "raise", "empty"}

\* a caller outside a call holds no local variable
NoLocals == [failed |-> FALSE]

\* AudioTourGenerator.__init__: available_models and current_model, the first
available_models == <<"gpt2", "distilgpt2", "facebook/opt-350m">>

AudioTourGenerator_init == [current_model |-> available_models[1]]

HasRow(tbl, e) == Matching(tbl, e) # {}
RowOf(tbl, e) == CHOOSE r \in Matching(tbl, e) : TRUE

\* the row of e is stored with the role admin
AdminRow(tbl, e) == HasRow(tbl, e) /\ RowOf(tbl, e).role = "admin"

\* tokens_used of the row of an email; an email without a row has used nothing
StoredUsage(tbl, e) == IF HasRow(tbl, e) THEN OrElse(RowOf(tbl, e).tokens_used, 0) ELSE 0

\* the method gets past its "not self.client or not email" guard
Reaches(e) == client /\ e # ""

\* _init_supabase: url and key tell whether SUPABASE_URL and SUPABASE_ANON_KEY
\* are set, create_ok whether create_client returned.  Without a client the
\* method has asked Streamlit to stop the run and returns None.
_init_supabase(url, key, create_ok) ==
    IF ~url \/ ~key THEN [client |-> FALSE, stop |-> TRUE]
    ELSE IF ~create_ok THEN [client |-> FALSE, stop |-> TRUE]
    ELSE [client |-> TRUE, stop |-> FALSE]

\* A script run of main() gets past AuthManager(): _init_supabase calls
\* st.stop(), which ends the run, exactly when it has no client to return.
MainRuns == client

\* the tables the program can find at start: empty, or holding an active user
\* with a personal limit of 1000 tokens and 900 of them used
InitTables == { {}, {Row("ana@x.io", "user", TRUE, 900, 1000)} }

\* no call has just returned
NoCall == [op |-> "none"]

\* the settings the environment can hold: each of the two is set or missing
Environments == [SUPABASE_URL : BOOLEAN, SUPABASE_ANON_KEY : BOOLEAN]

\* SupabaseManager.__init__ in environment env, with the client library lib
InitClient(env, lib) ==
    /\ environ = env
    /\ zero_rows = lib
    /\ \E create_ok \in BOOLEAN :
           client = _init_supabase(env.SUPABASE_URL, env.SUPABASE_ANON_KEY, create_ok).client

\* the state at start but for the client and the tables the program works on
InitRest ==
    /\ whitelist = {}
    /\ session = NoSession
    /\ guide = NoGuide
    /\ call = NoCall
    /\ ret = FALSE
    /\ added = [e \in Emails |-> StoredUsage(whitelist_users, e)]
    /\ month = 0
    /\ usage_month = [e \in Emails |-> 0]
    /\ pc = [c \in Callers |-> "idle"]
    /\ arg = [c \in Callers |-> ""]
    /\ locals = [c \in Callers |-> NoLocals]
    /\ generator = AudioTourGenerator_init

Init ==
    /\ \E env \in Environments, lib \in ZeroRowAnswers : InitClient(env, lib)
    /\ whitelist_users \in InitTables
    /\ user_token_usage = {}
    /\ InitRest

\* the frame of a manager call: everything but the table, the call and its
\* result, and the place of the callers
ManagerFrame ==
    UNCHANGED <<environ, zero_rows, client, whitelist, session, guide, month,
                user_token_usage, generator>>

\* the frame of a call that is made in one step
Atomic == UNCHANGED <<pc, arg, locals>>

\* caller c returns r from the call cl
Return(c, cl, r) ==
    /\ call' = cl
    /\ ret' = r
    /\ pc' = [pc EXCEPT ![c] = "idle"]
    /\ arg' = [arg EXCEPT ![c] = ""]
    /\ locals' = [locals EXCEPT ![c] = NoLocals]

\* caller c goes on to the datastore call next, its email and locals kept; the
\* step returns nothing
GoOn(c, next, e, l) ==
    /\ pc' = [pc EXCEPT ![c] = next]
    /\ arg' = [arg EXCEPT ![c] = e]
    /\ locals' = [locals EXCEPT ![c] = l]
    /\ call' = NoCall
    /\ ret' = FALSE

\* the ledger history after a call on email e that left table tbl2 and reported
\* amount tokens: added sums what was reported for the row of e, is kept when
\* the row is deleted and restarts at zero with a new row
Track(e, tbl2, amount) ==
    IF e \notin Emails
    THEN UNCHANGED <<added, usage_month>>
    ELSE /\ added' = IF ~HasRow(tbl2, e) THEN added
                     ELSE IF ~HasRow(whitelist_users, e) THEN [added EXCEPT ![e] = 0]
                     ELSE [added EXCEPT ![e] = @ + amount]
         /\ usage_month' = IF StoredUsage(tbl2, e) # StoredUsage(whitelist_users, e)
                              \/ (HasRow(tbl2, e) /\ ~HasRow(whitelist_users, e))
                           THEN [usage_month EXCEPT ![e] = month]
                           ELSE usage_month

CheckEmailInWhitelist(e, fail) ==
    /\ fail => Reaches(e)
    /\ call' = [op |-> "check_email_in_whitelist", email |-> e, failed |-> fail]
    /\ ret' = check_email_in_whitelist(client, whitelist_users, e, fail)
    /\ UNCHANGED <<whitelist_users, added, usage_month>>
    /\ Atomic /\ ManagerFrame

IsAdmin(e, fail) ==
    /\ fail => Reaches(e)
    /\ call' = [op |-> "is_admin", email |-> e, failed |-> fail]
    /\ ret' = is_admin(client, whitelist_users, e, fail)
    /\ UNCHANGED <<whitelist_users, added, usage_month>>
    /\ Atomic /\ ManagerFrame

\* the entry of e that the call which returned just before deleted with
\* reject_user or remove_email_from_whitelist, if that is what it did
Rejected(e) ==
    IF /\ call.op \in {"reject_user", "remove_email_from_whitelist"}
       /\ call.email = e /\ ret = TRUE
    THEN call.before ELSE {}

\* request_access(e) by caller c, up to its lookup
RequestAccessLookup(c, e, fail) ==
    LET r == request_access_lookup(client, whitelist_users, e, fail) IN
    /\ pc[c] = "idle"
    /\ fail => Reaches(e)
    /\ IF r.done
       THEN Return(c, [op |-> "request_access", email |-> e, failed |-> fail,
                       before |-> Matching(whitelist_users, e),
                       replaces |-> Rejected(e), inserting |-> FALSE], r.ret)
       ELSE GoOn(c, "request_access_insert", e,
                 [failed |-> fail, replaces |-> Rejected(e)])
    /\ UNCHANGED <<whitelist_users, added, usage_month>>
    /\ ManagerFrame

\* the insert of request_access, made on the table as it is by then
RequestAccessInsert(c, outcome) ==
    LET r == request_access_insert(whitelist_users, arg[c], outcome) IN
    /\ pc[c] = "request_access_insert"
    /\ outcome # "ok" => ~HasRow(whitelist_users, arg[c])
    /\ Return(c, [op |-> "request_access", email |-> arg[c],
                  failed |-> (locals[c].failed \/ outcome # "ok"),
                  before |-> Matching(whitelist_users, arg[c]),
                  replaces |-> locals[c].replaces, inserting |-> TRUE], r.ret)
    /\ whitelist_users' = r.tbl
    /\ Track(arg[c], r.tbl, 0)
    /\ ManagerFrame

\* approve_user(e) by caller c, up to its lookup
ApproveUserLookup(c, e, fail) ==
    LET r == approve_user_lookup(client, whitelist_users, e, fail) IN
    /\ pc[c] = "idle"
    /\ fail => Reaches(e)
    /\ IF r.done
       THEN Return(c, [op |-> "approve_user", email |-> e, failed |-> fail,
                       before |-> Matching(whitelist_users, e)], r.ret)
       ELSE GoOn(c, "approve_user_update", e, [failed |-> fail])
    /\ UNCHANGED <<whitelist_users, added, usage_month>>
    /\ ManagerFrame

\* the update of approve_user, made on the table as it is by then.  The
\* request can raise whatever the table holds; an update that matches no row
\* comes back with empty result.data, which is outcome "ok" there.
ApproveUserUpdate(c, outcome) ==
    LET r == approve_user_update(whitelist_users, arg[c], outcome) IN
    /\ pc[c] = "approve_user_update"
    /\ outcome = "empty" => HasRow(whitelist_users, arg[c])
    /\ Return(c, [op |-> "approve_user", email |-> arg[c],
                  failed |-> (locals[c].failed \/ outcome # "ok"),
                  before |-> Matching(whitelist_users, arg[c])], r.ret)
    /\ whitelist_users' = r.tbl
    /\ Track(arg[c], r.tbl, 0)
    /\ ManagerFrame

AddEmailToWhitelist(e, role, fail) ==
    LET r == add_email_to_whitelist(client, whitelist_users, e, role, fail) IN
    /\ fail => Reaches(e)
    /\ call' = [op |-> "add_email_to_whitelist", email |-> e, role |-> role,
                failed |-> fail, before |-> Matching(whitelist_users, e)]
    /\ ret' = r.ret
    /\ whitelist_users' = r.tbl
    /\ Track(e, r.tbl, 0)
    /\ Atomic /\ ManagerFrame

RemoveEmailFromWhitelist(e, fail) ==
    LET r == remove_email_from_whitelist(client, whitelist_users, e, fail) IN
    /\ fail => Reaches(e)
    /\ call' = [op |-> "remove_email_from_whitelist", email |-> e, failed |-> fail,
                before |-> Matching(whitelist_users, e)]
    /\ ret' = r.ret
    /\ whitelist_users' = r.tbl
    /\ Track(e, r.tbl, 0)
    /\ Atomic /\ ManagerFrame

RejectUser(e, fail) ==
    LET r == reject_user(client, whitelist_users, e, fail) IN
    /\ fail => Reaches(e)
    /\ call' = [op |-> "reject_user", email |-> e, failed |-> fail,
                before |-> Matching(whitelist_users, e)]
    /\ ret' = r.ret
    /\ whitelist_users' = r.tbl
    /\ Track(e, r.tbl, 0)
    /\ Atomic /\ ManagerFrame

UpdateUserRole(e, role, fail) ==
    LET r == update_user_role(client, whitelist_users, e, role, fail) IN
    /\ fail => Reaches(e)
    /\ call' = [op |-> "update_user_role", email |-> e, role |-> role, failed |-> fail,
                before |-> Matching(whitelist_users, e)]
    /\ ret' = r.ret
    /\ whitelist_users' = r.tbl
    /\ Track(e, r.tbl, 0)
    /\ Atomic /\ ManagerFrame

GetAllWhitelistEmails(fail) ==
    /\ fail => client
    /\ call' = [op |-> "get_all_whitelist_emails", failed |-> fail]
    /\ ret' = get_all_whitelist_emails(client, whitelist_users, fail)
    /\ UNCHANGED <<whitelist_users, added, usage_month>>
    /\ Atomic /\ ManagerFrame

GetPendingApprovals(fail) ==
    /\ fail => client
    /\ call' = [op |-> "get_pending_approvals", failed |-> fail]
    /\ ret' = get_pending_approvals(client, whitelist_users, fail)
    /\ UNCHANGED <<whitelist_users, added, usage_month>>
    /\ Atomic /\ ManagerFrame

GetAllTokenUsage(fail) ==
    /\ fail => client
    /\ call' = [op |-> "get_all_token_usage", failed |-> fail]
    /\ ret' = get_all_token_usage(client, user_token_usage, fail)
    /\ UNCHANGED <<whitelist_users, added, usage_month>>
    /\ Atomic /\ ManagerFrame

\* the frame of a call on the table whitelist
WhitelistFrame ==
    UNCHANGED <<environ, zero_rows, client, whitelist_users, session, guide, added,
                month, usage_month, user_token_usage, generator>>

AddToWhitelist(e, admin, fail) ==
    LET r == add_to_whitelist(client, whitelist, e, admin, fail) IN
    /\ fail => client
    /\ call' = [op |-> "add_to_whitelist", email |-> e, is_admin |-> admin,
                failed |-> fail]
    /\ ret' = r.ret
    /\ whitelist' = r.wl
    /\ Atomic /\ WhitelistFrame

RemoveFromWhitelist(e, fail) ==
    LET r == remove_from_whitelist(client, whitelist, e, fail) IN
    /\ fail => client
    /\ call' = [op |-> "remove_from_whitelist", email |-> e, failed |-> fail]
    /\ ret' = r.ret
    /\ whitelist' = r.wl
    /\ Atomic /\ WhitelistFrame

\* check_token_usage(e, required) by caller c, up to its role lookup;
\* admin_row records whether the row that lookup met was an administrator's
CheckTokenUsageRole(c, e, required, fail_admin) ==
    LET r == check_token_usage_role(client, whitelist_users, e, fail_admin) IN
    /\ pc[c] = "idle"
    /\ fail_admin => Reaches(e)
    /\ IF r.done
       THEN Return(c, [op |-> "check_token_usage", email |-> e,
                       required_tokens |-> required, failed |-> fail_admin,
                       failed_read |-> FALSE,
                       admin_row |-> AdminRow(whitelist_users, e)], r.ret)
       ELSE GoOn(c, "check_token_usage_read", e,
                 [failed |-> fail_admin, required_tokens |-> required,
                  admin_row |-> AdminRow(whitelist_users, e)])
    /\ UNCHANGED <<whitelist_users, added, usage_month>>
    /\ ManagerFrame

\* the read of the counters by check_token_usage, on the table as it is by then
CheckTokenUsageRead(c, fail) ==
    /\ pc[c] = "check_token_usage_read"
    /\ Return(c, [op |-> "check_token_usage", email |-> arg[c],
                  required_tokens |-> locals[c].required_tokens,
                  failed |-> (locals[c].failed \/ fail), failed_read |-> fail,
                  admin_row |-> locals[c].admin_row],
              check_token_usage_read(whitelist_users, arg[c],
                                     locals[c].required_tokens, fail))
    /\ UNCHANGED <<whitelist_users, added, usage_month>>
    /\ ManagerFrame

\* update_token_usage(e, tokens) by caller c, up to its role lookup.  A report
\* that goes on to the counter is made only while the total stays within
\* MaxUsed.
UpdateTokenUsageRole(c, e, tokens, fail_admin) ==
    LET r == update_token_usage_role(client, whitelist_users, e, fail_admin) IN
    /\ pc[c] = "idle"
    /\ fail_admin => Reaches(e)
    /\ ~r.done => StoredUsage(whitelist_users, e) + tokens <= MaxUsed
    /\ IF r.done
       THEN Return(c, [op |-> "update_token_usage", email |-> e, tokens_used |-> tokens,
                       failed |-> fail_admin, failed_update |-> FALSE,
                       before |-> Matching(whitelist_users, e)], r.ret)
       ELSE GoOn(c, "update_token_usage_read", e,
                 [failed |-> fail_admin, tokens_used |-> tokens, current_tokens |-> 0])
    /\ UNCHANGED <<whitelist_users, added, usage_month>>
    /\ ManagerFrame

\* the read of the counter by update_token_usage, on the table as it is by then
UpdateTokenUsageRead(c, fail) ==
    LET r == update_token_usage_read(whitelist_users, arg[c], fail) IN
    /\ pc[c] = "update_token_usage_read"
    /\ ~r.done => r.current_tokens + locals[c].tokens_used <= MaxUsed
    /\ IF r.done
       THEN Return(c, [op |-> "update_token_usage", email |-> arg[c],
                       tokens_used |-> locals[c].tokens_used,
                       failed |-> (locals[c].failed \/ fail), failed_update |-> fail,
                       before |-> Matching(whitelist_users, arg[c])], r.ret)
       ELSE GoOn(c, "update_token_usage_write", arg[c],
                 [locals[c] EXCEPT !.current_tokens = r.current_tokens])
    /\ UNCHANGED <<whitelist_users, added, usage_month>>
    /\ ManagerFrame

\* the write of the new total by update_token_usage, to the row as it is by then
UpdateTokenUsageWrite(c, fail_write) ==
    LET r == update_token_usage_write(whitelist_users, arg[c], locals[c].current_tokens,
                                      locals[c].tokens_used, fail_write) IN
    /\ pc[c] = "update_token_usage_write"
    /\ Return(c, [op |-> "update_token_usage", email |-> arg[c],
                  tokens_used |-> locals[c].tokens_used,
                  failed |-> (locals[c].failed \/ fail_write),
                  failed_update |-> fail_write,
                  before |-> Matching(whitelist_users, arg[c])], r.ret)
    /\ whitelist_users' = r.tbl
    /\ Track(arg[c], r.tbl, IF fail_write THEN 0 ELSE locals[c].tokens_used)
    /\ ManagerFrame

\* no call is in flight
Quiet == \A c \in Callers : pc[c] = "idle"

\* the methods of SupabaseManager called one after another: a call is begun
\* when the one before it has returned
Next ==
    \/ Quiet /\ \E e \in EmailArgs, fail \in BOOLEAN : CheckEmailInWhitelist(e, fail)
    \/ Quiet /\ \E e \in EmailArgs, fail \in BOOLEAN : IsAdmin(e, fail)
    \/ \E e \in EmailArgs, fail \in BOOLEAN : RequestAccessLookup("s1", e, fail)
    \/ \E o \in InsertOutcomes : RequestAccessInsert("s1", o)
    \/ \E e \in EmailArgs, fail \in BOOLEAN : ApproveUserLookup("s1", e, fail)
    \/ \E o \in InsertOutcomes : ApproveUserUpdate("s1", o)
    \/ Quiet /\ \E e \in EmailArgs, role \in Roles, fail \in BOOLEAN :
          AddEmailToWhitelist(e, role, fail)
    \/ Quiet /\ \E e \in EmailArgs, fail \in BOOLEAN : RemoveEmailFromWhitelist(e, fail)
    \/ Quiet /\ \E e \in EmailArgs, fail \in BOOLEAN : RejectUser(e, fail)
    \/ Quiet /\ \E e \in EmailArgs, role \in Roles, fail \in BOOLEAN :
          UpdateUserRole(e, role, fail)
    \/ \E e \in EmailArgs, t \in RequiredTokens, fa \in BOOLEAN :
          CheckTokenUsageRole("s1", e, t, fa)
    \/ \E fail \in BOOLEAN : CheckTokenUsageRead("s1", fail)
    \/ \E e \in EmailArgs, t \in TokenAmounts, fa \in BOOLEAN :
          UpdateTokenUsageRole("s1", e, t, fa)
    \/ \E fail \in BOOLEAN : UpdateTokenUsageRead("s1", fail)
    \/ \E fw \in BOOLEAN : UpdateTokenUsageWrite("s1", fw)

Spec == Init /\ [][Next]_vars

(***************************************************************************)
(* The text generator of huggingface_audio_tour_agent.backup.py: one       *)
(* AudioTourGenerator whose model the settings panel can change and        *)
(* whose generate_text asks the inference API, each request of a call      *)
(* succeeding or raising.                                                  *)
(***************************************************************************)
MaxRetries == 3

Apology == "Lo siento, no pude generar una respuesta en este momento."

\* available_models.index(m), counted from 1
IndexOf(m) == CHOOSE i \in 1..Len(available_models) : available_models[i] = m

\* generate_text giving up at the first request that raises
generate_text_without_retry(current_model, max_retries, outcomes) ==
    IF Head(outcomes)
    THEN [response |-> "generated", raised |-> FALSE,
          current_model |-> current_model, requests |-> <<current_model>>]
    ELSE [response |-> Apology, raised |-> FALSE,
          current_model |-> current_model, requests |-> <<current_model>>]

\* generate_text: outcomes[i] tells whether the i-th request to
\* text_generation returns; requests lists the models the requests were sent
\* to, current_model is the attribute when the call returns.
RECURSIVE generate_text(_, _, _)
generate_text(current_model, max_retries, outcomes) ==
    IF Head(outcomes)
    THEN [response |-> "generated", raised |-> FALSE,
          current_model |-> current_model, requests |-> <<current_model>>]
    ELSE IF max_retries > 0
    THEN IF \A i \in 1..Len(available_models) : available_models[i] # current_model
         THEN [response |-> "ValueError", raised |-> TRUE,
               current_model |-> current_model, requests |-> <<current_model>>]
         ELSE LET next_model_index == (IndexOf(current_model) % Len(available_models)) + 1
                  r == generate_text(available_models[next_model_index],
                                     max_retries - 1, Tail(outcomes))
              IN  [r EXCEPT !.requests = <<current_model>> \o @]
    ELSE [response |-> Apology, raised |-> FALSE,
          current_model |-> current_model, requests |-> <<current_model>>]

(***************************************************************************)
(* A run of the backup script.  The file holds two programs one after the  *)
(* other: the Hugging Face application (lines 1-591) and a copy of the     *)
(* simple application (lines 594-838).  A run executes the first, and the  *)
(* second when its set_page_config (line 625) is accepted although the page *)
(* was configured at line 343, which depends on the version of Streamlit.  *)
(* In this specification session and guide are the st.session_state of the *)
(* browser session that runs the script.                                   *)
(***************************************************************************)
AudioFile == "audio_outputs/audio.wav"     \* the Path tts and text_to_speech return

\* lines 419-422: the three keys are set where tour_generated is missing
tour_session_defaults(sess) ==
    IF "tour_generated" \in DOMAIN sess THEN sess
    ELSE SetKeys(sess, [tour_generated |-> FALSE, audio_file |-> Null,
                        tour_content |-> ""])

\* lines 470-522, the form submitted with a location and interests: r is what
\* generate_text did and tts_ok whether tts returned a file
tour_form_submitted(sess, r, tts_ok) ==
    IF r.raised THEN sess
    ELSE IF tts_ok
    THEN SetKeys(sess, [tour_content |-> r.response, audio_file |-> AudioFile,
                        tour_generated |-> TRUE])
    ELSE SetKeys(sess, [tour_content |-> r.response])

\* what a run takes from outside once the first program is through:
\* accepted, whether the set_page_config of line 625 is; api_key, whether
\* OPENAI_API_KEY is set; openai, how the generation of lines 807-834 ends
RunInputs ==
    [accepted : BOOLEAN, api_key : BOOLEAN, openai : {"ok", "raise_text", "raise_speech"}]

\* SimpleTourGuide(api_key=API_KEY) of lines 632-642
BackupGuide == [built |-> TRUE, user_email |-> NoEmail, supabase |-> FALSE]

\* lines 594-838: the second program.  pressed tells whether its button
\* "Generar Tour de Audio" was.
backup_main(sess, g, env, pressed) ==
    IF ~env.accepted
    THEN [session |-> sess, guide |-> g]
    ELSE LET s1 == SetKeys([tour_text |-> "", audio_file |-> Null,
                            is_generating |-> FALSE], sess)
             g1 == IF g.built THEN g ELSE BackupGuide
         IN  IF ~env.api_key
             THEN [session |-> s1, guide |-> g]
             ELSE IF ~s1["is_generating"]
             THEN [session |-> IF pressed THEN SetKeys(s1, [is_generating |-> TRUE])
                               ELSE s1,
                   guide |-> g1]
             ELSE [session |->
                     CASE env.openai = "ok" ->
                            SetKeys(s1, [tour_text |-> "generated",
                                         audio_file |-> AudioFile,
                                         is_generating |-> FALSE])
                       [] env.openai = "raise_speech" ->
                            SetKeys(s1, [tour_text |-> "generated",
                                         is_generating |-> FALSE])
                       [] OTHER -> SetKeys(s1, [is_generating |-> FALSE]),
                   guide |-> g1]

\* an input is drawn only where the run comes to use it
Used(env) ==
    /\ ~env.accepted => ~env.api_key
    /\ env.openai # "ok" =>
          /\ env.accepted /\ env.api_key
          /\ SessionGet(session, "is_generating", FALSE)

GeneratorFrame ==
    UNCHANGED <<environ, zero_rows, client, whitelist_users, whitelist,
                added, month, usage_month, pc, arg, user_token_usage, locals>>

\* a run with HF_API_TOKEN missing: AudioTourGenerator() raises and the run
\* stops at line 246; it builds no generator (generator stays the one of the
\* last run that built one) and comes to no line that writes the session
ScriptStopped ==
    /\ call' = [op |-> "script_stopped"]
    /\ ret' = FALSE
    /\ UNCHANGED <<generator, session, guide>>
    /\ GeneratorFrame

\* a run of the script with no button pressed: the module builds its
\* AudioTourGenerator anew
ScriptRun(env) ==
    LET m == backup_main(tour_session_defaults(session), guide, env, FALSE) IN
    /\ Used(env)
    /\ generator' = AudioTourGenerator_init
    /\ call' = [op |-> "script_run"]
    /\ ret' = FALSE
    /\ session' = m.session
    /\ guide' = m.guide
    /\ GeneratorFrame

\* a run of the script with "Apply Settings" pressed: the model picked in the
\* selectbox is set on the generator this run has built
ApplySettings(model_choice, env) ==
    LET m == backup_main(tour_session_defaults(session), guide, env, FALSE) IN
    /\ Used(env)
    /\ generator' = [AudioTourGenerator_init EXCEPT !.current_model = model_choice]
    /\ call' = [op |-> "apply_settings", model_choice |-> model_choice]
    /\ ret' = FALSE
    /\ session' = m.session
    /\ guide' = m.guide
    /\ GeneratorFrame

\* a run of the script with the tour form submitted: generate_text is called
\* on the generator this run has built, then tts on the text it returned
GenerateText(max_retries, outcomes, tts_ok, env) ==
    LET audio_tour == AudioTourGenerator_init
        r == generate_text(audio_tour.current_model, max_retries, outcomes)
        sess == tour_form_submitted(tour_session_defaults(session), r, tts_ok)
        m == backup_main(sess, guide, env, FALSE)
    IN  /\ Used(env)
        /\ call' = [op |-> "generate_text", max_retries |-> max_retries,
                    outcomes |-> outcomes, model_before |-> audio_tour.current_model]
        /\ ret' = [response |-> r.response, raised |-> r.raised, requests |-> r.requests]
        /\ generator' = [audio_tour EXCEPT !.current_model = r.current_model]
        /\ session' = m.session
        /\ guide' = m.guide
        /\ GeneratorFrame

\* a run with "Regenerate" pressed, which the form draws once tour_content
\* holds a text: the run clears the two keys and ends in st.rerun() (lines
\* 462-467)
Regenerate ==
    LET sess == tour_session_defaults(session) IN
    /\ sess["tour_content"] # ""
    /\ generator' = AudioTourGenerator_init
    /\ call' = [op |-> "regenerate"]
    /\ ret' = FALSE
    /\ session' = SetKeys(sess, [tour_generated |-> FALSE, audio_file |-> Null])
    /\ UNCHANGED guide
    /\ GeneratorFrame

\* a run with "Try a Sample Tour (Paris)" pressed, which is drawn while no
\* tour has been generated: the run sets location and interests and ends in
\* st.rerun() (lines 579-582)
SampleTour ==
    LET sess == tour_session_defaults(session) IN
    /\ ~sess["tour_generated"]
    /\ generator' = AudioTourGenerator_init
    /\ call' = [op |-> "sample_tour"]
    /\ ret' = FALSE
    /\ session' = SetKeys(sess, [location |-> "Paris, France",
                                 interests |-> <<"History", "Architecture", "Culture">>])
    /\ UNCHANGED guide
    /\ GeneratorFrame

\* a run with "Generar Tour de Audio" of the second program pressed, which is
\* drawn while no generation is pending: the run sets is_generating and ends
\* in st.rerun() (lines 769-772)
GenerarTour(env) ==
    LET m == backup_main(tour_session_defaults(session), guide, env, TRUE) IN
    /\ env.accepted /\ env.api_key /\ env.openai = "ok"
    /\ ~SessionGet(session, "is_generating", FALSE)
    /\ generator' = AudioTourGenerator_init
    /\ call' = [op |-> "generar_tour"]
    /\ ret' = FALSE
    /\ session' = m.session
    /\ guide' = m.guide
    /\ GeneratorFrame

NextGenerator ==
    \/ ScriptStopped
    \/ \E env \in RunInputs : ScriptRun(env)
    \/ \E i \in 1..Len(available_models), env \in RunInputs :
          ApplySettings(available_models[i], env)
    \/ \E max_retries \in 0..MaxRetries, outcomes \in [1..(MaxRetries + 1) -> BOOLEAN],
          tts_ok \in BOOLEAN, env \in RunInputs :
          GenerateText(max_retries, outcomes, tts_ok, env)
    \/ Regenerate
    \/ SampleTour
    \/ \E env \in RunInputs : GenerarTour(env)

\* The script builds no SupabaseManager and makes no datastore call: the
\* manager and the tables are those of one deployment and stay as they are.
InitGenerator ==
    /\ Init
    /\ environ = [SUPABASE_URL |-> TRUE, SUPABASE_ANON_KEY |-> TRUE]
    /\ zero_rows = "empty"
    /\ client
    /\ whitelist_users = {}

SpecGenerator == InitGenerator /\ [][NextGenerator]_vars

(***************************************************************************)
(* The admission check over the rows an operator can have stored: any      *)
(* role, a counter below or near the default limit, and a limit left       *)
(* empty, set to zero or set to a personal value.                          *)
(***************************************************************************)
StoredLimits == {0, Null, 1000}
StoredCounters == {0, 900, 9900}

InitLimits ==
    /\ \E lib \in ZeroRowAnswers :
           InitClient([SUPABASE_URL |-> TRUE, SUPABASE_ANON_KEY |-> TRUE], lib)
    /\ client
    /\ \E e \in Emails, role \in Roles, active \in BOOLEAN,
          used \in StoredCounters, limit \in StoredLimits :
           whitelist_users = {Row(e, role, active, used, limit)}
    /\ user_token_usage = {}
    /\ InitRest

NextLimits ==
    \/ \E e \in EmailArgs, t \in RequiredTokens, fa \in BOOLEAN :
          CheckTokenUsageRole("s1", e, t, fa)
    \/ \E fail \in BOOLEAN : CheckTokenUsageRead("s1", fail)

SpecLimits == InitLimits /\ [][NextLimits]_vars

(***************************************************************************)
(* The application: the script runs of main() of simple_audio_tour.py for  *)
(* one session (caller s1), while an administrator (caller s2, another     *)
(* session) works in the admin panel.  The datastore calls of the two      *)
(* interleave.  Here session s1 leaves the two buttons that open the       *)
(* panels alone (SpecPanels presses them); the administrator of s2 adds    *)
(* and removes the contested email, and approves whatever is pending.      *)
(***************************************************************************)
EstimatedTokens == {150}    \* len(location) + len(str(interests)) + 100

AppFrame ==
    UNCHANGED <<environ, zero_rows, client, whitelist, month, user_token_usage,
                generator>>

\* main() while the session is not authenticated, the login form drawn and
\* not submitted
LoginFormDrawn(c) ==
    /\ pc[c] = "idle"
    /\ MainRuns
    /\ ~IsAuthenticated(session)
    /\ session' = check_authentication(session)
    /\ call' = [op |-> "main", at |-> "login_form"]
    /\ ret' = FALSE
    /\ UNCHANGED <<whitelist_users, guide, added, usage_month>>
    /\ Atomic /\ AppFrame

\* main() while the session is not authenticated, the login form submitted:
\* the form's checks and its own lookup
LoginSubmit(c, email, fail) ==
    LET sess == check_authentication(session)
        r == show_login_form_submit(client, whitelist_users, sess, email, fail)
    IN  /\ pc[c] = "idle"
        /\ MainRuns
        /\ ~IsAuthenticated(session)
        /\ fail => Reaches(email) /\ _is_valid_email(email)
        /\ session' = r.session
        /\ IF r.done
           THEN Return(c, [op |-> "show_login_form", email |-> email, failed |-> fail,
                           at |-> "form",
                           before |-> Matching(whitelist_users, email),
                           table_before |-> whitelist_users,
                           session_before |-> sess], r.ret)
           ELSE GoOn(c, "login_request_lookup", email, [failed |-> fail])
        /\ UNCHANGED <<whitelist_users, guide, added, usage_month>>
        /\ AppFrame

\* the lookup of the request_access the form calls for an email it did not find
LoginRequestLookup(c, fail) ==
    LET r == request_access_lookup(client, whitelist_users, arg[c], fail) IN
    /\ pc[c] = "login_request_lookup"
    /\ fail => Reaches(arg[c])
    /\ IF r.done
       THEN Return(c, [op |-> "show_login_form", email |-> arg[c],
                       failed |-> (locals[c].failed \/ fail), at |-> "request",
                       before |-> Matching(whitelist_users, arg[c]),
                       table_before |-> whitelist_users,
                       session_before |-> session],
                   show_login_form_requested(r.ret))
       ELSE GoOn(c, "login_request_insert", arg[c],
                 [failed |-> (locals[c].failed \/ fail)])
    /\ UNCHANGED <<whitelist_users, session, guide, added, usage_month>>
    /\ AppFrame

\* the insert of that request_access, and what the form shows after it
LoginRequestInsert(c, outcome) ==
    LET r == request_access_insert(whitelist_users, arg[c], outcome) IN
    /\ pc[c] = "login_request_insert"
    /\ outcome # "ok" => ~HasRow(whitelist_users, arg[c])
    /\ Return(c, [op |-> "show_login_form", email |-> arg[c],
                  failed |-> (locals[c].failed \/ outcome # "ok"), at |-> "insert",
                  before |-> Matching(whitelist_users, arg[c]),
                  table_before |-> whitelist_users,
                  session_before |-> session],
              show_login_form_requested(r.ret))
    /\ whitelist_users' = r.tbl
    /\ Track(arg[c], r.tbl, 0)
    /\ UNCHANGED <<session, guide>>
    /\ AppFrame

Logout(c) ==
    /\ pc[c] = "idle"
    /\ MainRuns
    /\ call' = [op |-> "logout", before |-> session]
    /\ ret' = FALSE
    /\ session' = logout(session)
    /\ UNCHANGED <<whitelist_users, guide, added, usage_month>>
    /\ Atomic /\ AppFrame

\* main() while the session is authenticated: the role lookup that decides
\* whether the administrator's buttons are drawn (line 283), the button pressed
\* in this run, and where the run goes: into the admin panel, into the token
\* panel, or on to the page
MainIsAdmin(c, fail, button) ==
    LET admin == is_admin(client, whitelist_users, session["user_email"], fail)
        sess == main_admin_buttons(session, admin, button)
    IN  /\ pc[c] = "idle"
        /\ MainRuns
        /\ IsAuthenticated(session)
        /\ button # "none" => admin
        /\ session' = sess
        /\ GoOn(c, main_panel(sess), session["user_email"],
                [failed |-> fail, is_admin |-> admin])
        /\ UNCHANGED <<whitelist_users, guide, added, usage_month>>
        /\ AppFrame

\* show_admin_panel, drawn in this session with none of its own buttons
\* pressed: the list of the first tab
MainPanelUsers(c, fail) ==
    /\ pc[c] = "main_admin_panel"
    /\ GoOn(c, "main_panel_pending", arg[c],
            [failed |-> (locals[c].failed \/ fail), is_admin |-> locals[c].is_admin,
             users |-> get_all_whitelist_emails(client, whitelist_users, fail)])
    /\ UNCHANGED <<whitelist_users, session, guide, added, usage_month>>
    /\ AppFrame

\* the pending requests of the third tab
MainPanelPending(c, fail) ==
    /\ pc[c] = "main_panel_pending"
    /\ GoOn(c, "main_panel_remove", arg[c],
            [failed |-> (locals[c].failed \/ fail), is_admin |-> locals[c].is_admin,
             users |-> locals[c].users,
             pending |-> get_pending_approvals(client, whitelist_users, fail)])
    /\ UNCHANGED <<whitelist_users, session, guide, added, usage_month>>
    /\ AppFrame

\* the list of the fourth tab, after which main() returns (line 300)
MainPanelRemove(c, fail) ==
    /\ pc[c] = "main_panel_remove"
    /\ Return(c, [op |-> "main", at |-> "admin_panel", email |-> arg[c],
                  is_admin |-> locals[c].is_admin,
                  failed |-> (locals[c].failed \/ fail)],
              [users |-> locals[c].users, pending |-> locals[c].pending,
               removable |-> {u.email :
                    u \in get_all_whitelist_emails(client, whitelist_users, fail)}])
    /\ UNCHANGED <<whitelist_users, session, guide, added, usage_month>>
    /\ AppFrame

\* show_token_management, drawn in this session with none of its own buttons
\* pressed: get_all_token_usage lists the rows, after which main() returns
\* (line 304)
MainTokenPanel(c, fail) ==
    LET token_usages == get_all_token_usage(client, user_token_usage, fail) IN
    /\ pc[c] = "main_token_panel"
    /\ Return(c, [op |-> "main", at |-> "token_panel", email |-> arg[c],
                  is_admin |-> locals[c].is_admin,
                  failed |-> (locals[c].failed \/ fail)],
              [token_usages |-> token_usages,
               drawn |-> {e \in Emails : ButtonsDrawn(token_usages, e)}])
    /\ UNCHANGED <<whitelist_users, session, guide, added, usage_month>>
    /\ AppFrame

\* the check_token_usage(user_email) whose answer the sidebar shows (line
\* 313), up to its role lookup
MainCheckRole(c, fail_admin) ==
    LET r == check_token_usage_role(client, whitelist_users, arg[c], fail_admin) IN
    /\ pc[c] = "main_check_role"
    /\ IF r.done
       THEN GoOn(c, "main_page", arg[c],
                 [failed |-> (locals[c].failed \/ fail_admin),
                  is_admin |-> locals[c].is_admin, token_info |-> r.ret])
       ELSE GoOn(c, "main_check_read", arg[c],
                 [failed |-> (locals[c].failed \/ fail_admin),
                  is_admin |-> locals[c].is_admin])
    /\ UNCHANGED <<whitelist_users, session, guide, added, usage_month>>
    /\ AppFrame

\* the read of the counters by that check_token_usage
MainCheckRead(c, fail) ==
    /\ pc[c] = "main_check_read"
    /\ GoOn(c, "main_page", arg[c],
            [failed |-> (locals[c].failed \/ fail),
             is_admin |-> locals[c].is_admin,
             token_info |-> check_token_usage_read(whitelist_users, arg[c], 0, fail)])
    /\ UNCHANGED <<whitelist_users, session, guide, added, usage_month>>
    /\ AppFrame

\* the rest of a run in which no generation is pending: the session keys and
\* the guide are set where they are missing, and the generate button, when it
\* was pressed, sets is_generating and asks for the rerun that generates
MainPage(c, pressed) ==
    LET sess == main_session_defaults(session) IN
    /\ pc[c] = "main_page"
    /\ ~sess["is_generating"]
    /\ session' = SetKeys(sess, [is_generating |-> pressed])
    /\ guide' = main_guide(guide)
    /\ Return(c, [op |-> "main", at |-> "page", email |-> arg[c], pressed |-> pressed,
                  is_admin |-> locals[c].is_admin, failed |-> locals[c].failed],
              locals[c].token_info)
    /\ UNCHANGED <<whitelist_users, added, usage_month>>
    /\ AppFrame

\* the rest of a run in which a generation is pending (is_generating is set):
\* generate_tour_text is called, and the run ends with is_generating reset.
\* The guide main() builds holds no email and no ledger, so generate_tour_text
\* makes no datastore call; token_info is what the sidebar's check of this run
\* answered.
GenerateTour(c, estimated, api_ok, used_tokens) ==
    LET sess == main_session_defaults(session)
        g == main_guide(guide)
        r == generate_tour_text(g, NoStatus, estimated, api_ok, used_tokens)
    IN  /\ pc[c] = "main_page"
        /\ sess["is_generating"]
        /\ g.built
        /\ ~r.consulted /\ ~r.reported
        /\ guide' = g
        /\ session' = IF r.raised
                      THEN SetKeys(sess, [is_generating |-> FALSE])
                      ELSE SetKeys(sess, [is_generating |-> FALSE,
                                          tour_text |-> "generated"])
        /\ Return(c, [op |-> "generate_tour_text", email |-> arg[c],
                      estimated_tokens |-> estimated,
                      total_tokens |-> IF api_ok THEN used_tokens ELSE 0,
                      token_info |-> locals[c].token_info], r)
        /\ UNCHANGED <<whitelist_users, added, usage_month>>
        /\ AppFrame

\* a run of the admin panel by administrator c: get_pending_approvals lists
\* the pending emails, and the "Aceptar" button of one of them was pressed
ApproveButtonList(c, e) ==
    /\ pc[c] = "idle"
    /\ MainRuns
    /\ e \in get_pending_approvals(client, whitelist_users, FALSE)
    /\ GoOn(c, "approve_button_lookup", e, [failed |-> FALSE])
    /\ UNCHANGED <<whitelist_users, session, guide, added, usage_month>>
    /\ AppFrame

\* the lookup of the approve_user the button calls
ApproveButtonLookup(c, fail) ==
    LET r == approve_user_lookup(client, whitelist_users, arg[c], fail) IN
    /\ pc[c] = "approve_button_lookup"
    /\ IF r.done
       THEN Return(c, [op |-> "approve_button", email |-> arg[c], failed |-> fail,
                       before |-> Matching(whitelist_users, arg[c])],
                   show_admin_panel_approve(r.ret))
       ELSE GoOn(c, "approve_button_update", arg[c], [failed |-> fail])
    /\ UNCHANGED <<whitelist_users, session, guide, added, usage_month>>
    /\ AppFrame

\* the update of that approve_user, and what the panel shows after it
ApproveButtonUpdate(c, outcome) ==
    LET r == approve_user_update(whitelist_users, arg[c], outcome) IN
    /\ pc[c] = "approve_button_update"
    /\ outcome = "empty" => HasRow(whitelist_users, arg[c])
    /\ Return(c, [op |-> "approve_button", email |-> arg[c],
                  failed |-> (locals[c].failed \/ outcome # "ok"),
                  before |-> Matching(whitelist_users, arg[c])],
              show_admin_panel_approve(r.ret))
    /\ whitelist_users' = r.tbl
    /\ Track(arg[c], r.tbl, 0)
    /\ UNCHANGED <<session, guide>>
    /\ AppFrame

NextApp ==
    \/ LoginFormDrawn("s1")
    \/ \E e \in LoginInputs, fail \in BOOLEAN : LoginSubmit("s1", e, fail)
    \/ \E fail \in BOOLEAN : LoginRequestLookup("s1", fail)
    \/ \E o \in InsertOutcomes : LoginRequestInsert("s1", o)
    \/ Logout("s1")
    \/ \E fail \in BOOLEAN : MainIsAdmin("s1", fail, "none")
    \/ \E fail \in BOOLEAN : MainCheckRole("s1", fail)
    \/ \E fail \in BOOLEAN : MainCheckRead("s1", fail)
    \/ \E pressed \in BOOLEAN : MainPage("s1", pressed)
    \/ \E t \in EstimatedTokens, ok \in BOOLEAN, u \in TokenAmounts :
          GenerateTour("s1", t, ok, u)
    \/ MainRuns /\ \E e \in Contested, role \in Roles, fail \in BOOLEAN :
          AddEmailToWhitelist(e, role, fail)
    \/ MainRuns /\ \E e \in Contested, fail \in BOOLEAN :
          RemoveEmailFromWhitelist(e, fail)
    \/ \E e \in Emails : ApproveButtonList("s2", e)
    \/ \E fail \in BOOLEAN : ApproveButtonLookup("s2", fail)
    \/ \E o \in InsertOutcomes : ApproveButtonUpdate("s2", o)

SpecApp == Init /\ [][NextApp]_vars

(***************************************************************************)
(* The panels: the script runs of main() for one session (caller s1) that  *)
(* logs in and out, opens and closes the admin panel and the token panel   *)
(* while its email is stored as admin, and presses no button inside them;  *)
(* the keys show_admin and show_token_management stay in the session.      *)
(* Meanwhile an administrator adds the contested email again, with either  *)
(* role, or removes it.                                                    *)
(***************************************************************************)
InitPanels ==
    /\ \E env \in Environments, lib \in ZeroRowAnswers : InitClient(env, lib)
    /\ whitelist_users = {Row("ana@x.io", "admin", TRUE, 900, 1000)}
    /\ user_token_usage = {UsageRow("ana@x.io", 900, 1000)}
    /\ InitRest

NextPanels ==
    \/ LoginFormDrawn("s1")
    \/ \E e \in LoginInputs, fail \in BOOLEAN : LoginSubmit("s1", e, fail)
    \/ \E fail \in BOOLEAN : LoginRequestLookup("s1", fail)
    \/ \E o \in InsertOutcomes : LoginRequestInsert("s1", o)
    \/ Logout("s1")
    \/ \E fail \in BOOLEAN, button \in PanelButtons \cup {"none"} :
          MainIsAdmin("s1", fail, button)
    \/ \E fail \in BOOLEAN : MainPanelUsers("s1", fail)
    \/ \E fail \in BOOLEAN : MainPanelPending("s1", fail)
    \/ \E fail \in BOOLEAN : MainPanelRemove("s1", fail)
    \/ \E fail \in BOOLEAN : MainTokenPanel("s1", fail)
    \/ \E fail \in BOOLEAN : MainCheckRole("s1", fail)
    \/ \E fail \in BOOLEAN : MainCheckRead("s1", fail)
    \/ \E pressed \in BOOLEAN : MainPage("s1", pressed)
    \/ \E t \in EstimatedTokens, ok \in BOOLEAN, u \in TokenAmounts :
          GenerateTour("s1", t, ok, u)
    \/ MainRuns /\ \E e \in Contested, role \in Roles, fail \in BOOLEAN :
          AddEmailToWhitelist(e, role, fail)
    \/ MainRuns /\ \E e \in Contested, fail \in BOOLEAN :
          RemoveEmailFromWhitelist(e, fail)

SpecPanels == InitPanels /\ [][NextPanels]_vars

(***************************************************************************)
(* The ledger under a moving calendar: datetime.now() passes into the next *)
(* month between two datastore calls.                                      *)
(***************************************************************************)
NextMonth ==
    /\ month < MaxMonth
    /\ month' = month + 1
    /\ call' = NoCall
    /\ ret' = FALSE
    /\ UNCHANGED <<environ, zero_rows, client, whitelist_users, whitelist, session,
                   guide, added, usage_month, pc, arg, user_token_usage, locals,
                   generator>>

NextClock ==
    \/ NextMonth
    \/ \E e \in Emails, t \in RequiredTokens, fa \in BOOLEAN :
          CheckTokenUsageRole("s1", e, t, fa)
    \/ \E fail \in BOOLEAN : CheckTokenUsageRead("s1", fail)
    \/ \E e \in Emails, t \in TokenAmounts, fa \in BOOLEAN :
          UpdateTokenUsageRole("s1", e, t, fa)
    \/ \E fail \in BOOLEAN : UpdateTokenUsageRead("s1", fail)
    \/ \E fw \in BOOLEAN : UpdateTokenUsageWrite("s1", fw)
    \/ \E e \in Emails, fail \in BOOLEAN : RequestAccessLookup("s1", e, fail)
    \/ \E o \in InsertOutcomes : RequestAccessInsert("s1", o)

SpecClock == Init /\ [][NextClock]_vars

(***************************************************************************)
(* The registry under concurrent callers: request_access, approve_user and *)
(* check_token_usage of two callers interleave at their datastore calls    *)
(* with each other and with the one-call methods of administrators.        *)
(***************************************************************************)
NextRace ==
    \/ \E c \in Callers, e \in Contested, fail \in BOOLEAN : RequestAccessLookup(c, e, fail)
    \/ \E c \in Callers, o \in InsertOutcomes : RequestAccessInsert(c, o)
    \/ \E c \in Callers, e \in Contested, fail \in BOOLEAN : ApproveUserLookup(c, e, fail)
    \/ \E c \in Callers, o \in InsertOutcomes : ApproveUserUpdate(c, o)
    \/ \E e \in Contested, fail \in BOOLEAN : RemoveEmailFromWhitelist(e, fail)
    \/ \E e \in Contested, role \in Roles, fail \in BOOLEAN : AddEmailToWhitelist(e, role, fail)
    \/ \E e \in Contested, role \in Roles, fail \in BOOLEAN : UpdateUserRole(e, role, fail)
    \/ \E c \in Callers, e \in Contested, t \in RequiredTokens, fa \in BOOLEAN :
          CheckTokenUsageRole(c, e, t, fa)
    \/ \E c \in Callers, fail \in BOOLEAN : CheckTokenUsageRead(c, fail)

InitRace == Init /\ client /\ whitelist_users = {}

SpecRace == InitRace /\ [][NextRace]_vars

(***************************************************************************)
(* The token panel (show_token_management) of an administrator (caller     *)
(* s2), while a user (caller s1) is checked and reports usage.  Each run   *)
(* of the panel lists user_token_usage and draws the buttons of the rows   *)
(* it could render; a pressed button calls its method in the same run.     *)
(***************************************************************************)
NewLimits == {1000, 2000}      \* number_input: min_value=1000, step=1000

\* the rows user_token_usage can hold at start: the program writes tokens_limit
\* and tokens_used of rows kept by the operator of the datastore
UsageTables ==
    { {},
      {UsageRow("ana@x.io", 900, 1000)},
      {UsageRow("ana@x.io", 900, 1000), UsageRow("bo@x.io", Null, 1000)},
      {UsageRow("ana@x.io", Null, 1000), UsageRow("bo@x.io", 0, 1000)} }

InitTokens ==
    /\ \E env \in Environments, lib \in ZeroRowAnswers : InitClient(env, lib)
    /\ whitelist_users \in InitTables
    /\ user_token_usage \in UsageTables
    /\ InitRest

TokenFrame ==
    UNCHANGED <<environ, zero_rows, client, whitelist, session, guide, month, generator>>

\* a run of the panel by administrator c: get_all_token_usage lists the rows,
\* the button named (of the update or of the reset) is drawn for email e, and
\* it was pressed
TokenPanel(c, e, button, fail) ==
    /\ pc[c] = "idle"
    /\ MainRuns
    /\ ButtonsDrawn(get_all_token_usage(client, user_token_usage, fail), e)
    /\ GoOn(c, button, e, [failed |-> FALSE])
    /\ UNCHANGED <<whitelist_users, user_token_usage, added, usage_month>>
    /\ TokenFrame

\* the update button: update_token_limit with the value of the number input
UpdateTokenLimit(c, new_limit, fail) ==
    LET r == update_token_limit(client, whitelist_users, user_token_usage, arg[c],
                                new_limit, fail) IN
    /\ pc[c] = "update_token_limit"
    /\ Return(c, [op |-> "update_token_limit", email |-> arg[c],
                  new_limit |-> new_limit, failed |-> fail], r.ret)
    /\ whitelist_users' = r.tbl
    /\ user_token_usage' = r.usage
    /\ Track(arg[c], r.tbl, 0)
    /\ TokenFrame

\* the reset button: reset_token_usage
ResetTokenUsage(c, fail) ==
    LET r == reset_token_usage(client, whitelist_users, user_token_usage, arg[c], fail) IN
    /\ pc[c] = "reset_token_usage"
    /\ Return(c, [op |-> "reset_token_usage", email |-> arg[c], failed |-> fail], r.ret)
    /\ whitelist_users' = r.tbl
    /\ user_token_usage' = r.usage
    /\ Track(arg[c], r.tbl, 0)
    /\ TokenFrame

NextTokens ==
    \/ \E e \in Emails, b \in {"update_token_limit", "reset_token_usage"} :
          \E fail \in BOOLEAN : TokenPanel("s2", e, b, fail)
    \/ \E l \in NewLimits, fail \in BOOLEAN : UpdateTokenLimit("s2", l, fail)
    \/ \E fail \in BOOLEAN : ResetTokenUsage("s2", fail)
    \/ \E e \in Emails, t \in RequiredTokens, fa \in BOOLEAN :
          CheckTokenUsageRole("s1", e, t, fa)
    \/ \E fail \in BOOLEAN : CheckTokenUsageRead("s1", fail)
    \/ \E e \in Emails, t \in TokenAmounts, fa \in BOOLEAN :
          UpdateTokenUsageRole("s1", e, t, fa)
    \/ \E fail \in BOOLEAN : UpdateTokenUsageRead("s1", fail)
    \/ \E fw \in BOOLEAN : UpdateTokenUsageWrite("s1", fw)

SpecTokens == InitTokens /\ [][NextTokens]_vars

(***************************************************************************)
(* The ledger under concurrent callers: update_token_usage and             *)
(* check_token_usage of two callers interleave at their datastore calls,   *)
(* while an administrator changes roles.                                   *)
(***************************************************************************)
NextUsageRace ==
    \/ \E c \in Callers, e \in Emails, t \in TokenAmounts, fa \in BOOLEAN :
          UpdateTokenUsageRole(c, e, t, fa)
    \/ \E c \in Callers, fail \in BOOLEAN : UpdateTokenUsageRead(c, fail)
    \/ \E c \in Callers, fw \in BOOLEAN : UpdateTokenUsageWrite(c, fw)
    \/ \E c \in Callers, e \in Emails, t \in RequiredTokens, fa \in BOOLEAN :
          CheckTokenUsageRole(c, e, t, fa)
    \/ \E c \in Callers, fail \in BOOLEAN : CheckTokenUsageRead(c, fail)
    \/ \E e \in Emails, role \in Roles, fail \in BOOLEAN : UpdateUserRole(e, role, fail)

InitUsageRace == Init /\ client /\ whitelist_users # {}

SpecUsageRace == InitUsageRace /\ [][NextUsageRace]_vars

(***************************************************************************)
(* The manager from its construction on, whatever the environment held:    *)
(* every public method of SupabaseManager called directly, one call at a   *)
(* time, and the run of main() that draws the login form.  The methods     *)
(* that write to no table are given every email; a new entry, a report of  *)
(* 1800 tokens and a new limit of 2000 are given for the contested email   *)
(* (what the methods do with other arguments is the matter of Spec and     *)
(* SpecTokens).                                                            *)
(***************************************************************************)
StartupAmounts == {1800}
StartupLimits == {2000}

\* update_token_limit(e, new_limit) called on the manager
CallUpdateTokenLimit(e, new_limit, fail) ==
    LET r == update_token_limit(client, whitelist_users, user_token_usage, e,
                                new_limit, fail) IN
    /\ fail => client
    /\ call' = [op |-> "update_token_limit", email |-> e, new_limit |-> new_limit,
                failed |-> fail]
    /\ ret' = r.ret
    /\ whitelist_users' = r.tbl
    /\ user_token_usage' = r.usage
    /\ Track(e, r.tbl, 0)
    /\ Atomic /\ TokenFrame

\* reset_token_usage(e) called on the manager
CallResetTokenUsage(e, fail) ==
    LET r == reset_token_usage(client, whitelist_users, user_token_usage, e, fail) IN
    /\ fail => client
    /\ call' = [op |-> "reset_token_usage", email |-> e, failed |-> fail]
    /\ ret' = r.ret
    /\ whitelist_users' = r.tbl
    /\ user_token_usage' = r.usage
    /\ Track(e, r.tbl, 0)
    /\ Atomic /\ TokenFrame

InitStartup ==
    /\ \E env \in Environments, lib \in ZeroRowAnswers : InitClient(env, lib)
    /\ whitelist_users \in InitTables
    /\ user_token_usage = {UsageRow("ana@x.io", 900, 1000)}
    /\ InitRest

NextStartup ==
    \/ Quiet /\ LoginFormDrawn("s1")
    \/ Quiet /\ \E e \in EmailArgs, fail \in BOOLEAN : CheckEmailInWhitelist(e, fail)
    \/ Quiet /\ \E e \in EmailArgs, fail \in BOOLEAN : IsAdmin(e, fail)
    \/ Quiet /\ \E fail \in BOOLEAN : GetAllWhitelistEmails(fail)
    \/ \E e \in Contested \cup {""}, fail \in BOOLEAN : RequestAccessLookup("s1", e, fail)
    \/ \E o \in InsertOutcomes : RequestAccessInsert("s1", o)
    \/ \E e \in EmailArgs, fail \in BOOLEAN : ApproveUserLookup("s1", e, fail)
    \/ \E o \in InsertOutcomes : ApproveUserUpdate("s1", o)
    \/ Quiet /\ \E e \in Contested \cup {""}, role \in Roles, fail \in BOOLEAN :
          AddEmailToWhitelist(e, role, fail)
    \/ Quiet /\ \E e \in EmailArgs, fail \in BOOLEAN : RemoveEmailFromWhitelist(e, fail)
    \/ Quiet /\ \E e \in Contested, admin \in {FALSE}, fail \in BOOLEAN :
          AddToWhitelist(e, admin, fail)
    \/ Quiet /\ \E fail \in BOOLEAN : GetPendingApprovals(fail)
    \/ Quiet /\ \E e \in EmailArgs, fail \in BOOLEAN : RejectUser(e, fail)
    \/ Quiet /\ \E e \in EmailArgs, role \in Roles, fail \in BOOLEAN :
          UpdateUserRole(e, role, fail)
    \/ Quiet /\ \E e \in Emails, fail \in BOOLEAN : RemoveFromWhitelist(e, fail)
    \/ \E e \in EmailArgs, t \in RequiredTokens, fa \in BOOLEAN :
          CheckTokenUsageRole("s1", e, t, fa)
    \/ \E fail \in BOOLEAN : CheckTokenUsageRead("s1", fail)
    \/ \E e \in EmailArgs, t \in StartupAmounts, fa \in BOOLEAN :
          UpdateTokenUsageRole("s1", e, t, fa)
    \/ \E fail \in BOOLEAN : UpdateTokenUsageRead("s1", fail)
    \/ \E fw \in BOOLEAN : UpdateTokenUsageWrite("s1", fw)
    \/ Quiet /\ \E fail \in BOOLEAN : GetAllTokenUsage(fail)
    \/ Quiet /\ \E e \in Contested, l \in StartupLimits, fail \in BOOLEAN :
          CallUpdateTokenLimit(e, l, fail)
    \/ Quiet /\ \E e \in Emails, fail \in BOOLEAN : CallResetTokenUsage(e, fail)

SpecStartup == InitStartup /\ [][NextStartup]_vars

(***************************************************************************)
(* Properties.  call and ret describe the call that has just returned; a   *)
(* call "answered" is one whose datastore calls all succeeded on a manager *)
(* that has a client.                                                      *)
(***************************************************************************)
Max0(n) == IF n < 0 THEN 0 ELSE n

\* the limit check_token_usage applies to a row
LimitOf(row) ==
    IF row.token_limit = Null \/ row.token_limit = 0 THEN DefaultTokenLimit
    ELSE row.token_limit

\* the last call was check_token_usage, answered, for the row of a non-admin
CheckedUser ==
    /\ call.op = "check_token_usage" /\ client /\ ~call.failed
    /\ HasRow(whitelist_users, call.email)
    /\ RowOf(whitelist_users, call.email).role # "admin"

\* C1: for a non-admin email the admission check allows T tokens exactly
\* when T is at most the remaining max(0, limit - used), computed from the
\* stored usage and limit.
C1_AllowedIffWithinClampedRemaining ==
    CheckedUser =>
        LET row == RowOf(whitelist_users, call.email)
            remaining == Max0(LimitOf(row) - StoredUsage(whitelist_users, call.email))
        IN  ret.can_proceed = ~(call.required_tokens > remaining)

\* C2: a call of the generation API made for a logged-in user follows an
\* admission check of the ledger that allowed it and is followed by a report
\* of the usage to the ledger.
C2_ExternalCallsMetered ==
    (call.op = "generate_tour_text" /\ ret.api_called) =>
        (ret.consulted /\ ret.can_proceed /\ ret.reported)

\* C3: the admission check, answered, allows every requested amount for an
\* email whose row has the role admin when the check looks the role up,
\* whatever usage the row records.
C3_AdminAlwaysAllowed ==
    (call.op = "check_token_usage" /\ client /\ ~call.failed /\ call.admin_row)
    => ret.can_proceed

\* an admin whose row records more usage than its limit has been allowed
C3_Witness ==
    /\ call.op = "check_token_usage" /\ client /\ ~call.failed /\ call.admin_row
    /\ AdminRow(whitelist_users, call.email)
    /\ StoredUsage(whitelist_users, call.email) + call.required_tokens
          > LimitOf(RowOf(whitelist_users, call.email))
    /\ ret.can_proceed

\* C4: the status read after reports summing to S shows tokens_used = S and
\* tokens_remaining = max(0, limit - S).
C4_StatusReportsClampedRemaining ==
    CheckedUser =>
        /\ ret.tokens_used = added[call.email]
        /\ "tokens_remaining" \in DOMAIN ret
        /\ ret["tokens_remaining"]
              = Max0(LimitOf(RowOf(whitelist_users, call.email)) - added[call.email])

\* C5: no operation lowers the stored usage counter of an email: after every
\* step the counter an email has is at least the usage recorded for it before.
C5_UsageNeverDecreases ==
    [][\A e \in Emails :
          HasRow(whitelist_users', e) => StoredUsage(whitelist_users', e) >= added[e]]_vars

\* C6: a status read in a month later than the one the usage was recorded in
\* shows tokens_used = 0.
C6_MonthlyIsolation ==
    (CheckedUser /\ usage_month[call.email] < month) => ret.tokens_used = 0

\* C7: check_email_in_whitelist answers exists=false, is_active=false,
\* role=user when its lookup failed, the client is missing or the email is
\* empty, and reports an active or admin entry only when the stored row is one.
C7_CheckStatusFailsClosed ==
    call.op = "check_email_in_whitelist" =>
        /\ DOMAIN ret = {"exists", "is_active", "role"}
        /\ (call.failed \/ ~client \/ call.email = "") => ret = NotInWhitelist
        /\ ret.is_active =>
              \E r \in Matching(whitelist_users, call.email) : r.is_active
        /\ ret.role = "admin" =>
              \E r \in Matching(whitelist_users, call.email) : r.role = "admin"

\* the lookup of an active administrator failed and was answered "not there"
C7_Witness ==
    /\ call.op = "check_email_in_whitelist" /\ call.failed
    /\ \E r \in Matching(whitelist_users, call.email) : r.is_active /\ r.role = "admin"
    /\ ret = NotInWhitelist

\* C8: check_status of an email without entry answers exists=false, and after
\* a successful request_access on such an email it answers exists=true,
\* is_active=false, role=user.
C8_RequestMakesPending ==
    /\ (/\ call.op = "check_email_in_whitelist"
        /\ ~HasRow(whitelist_users, call.email)) => ~ret.exists
    /\ (call.op = "request_access" /\ call.before = {} /\ ret.success) =>
          check_email_in_whitelist(client, whitelist_users, call.email, FALSE)
              = [exists |-> TRUE, is_active |-> FALSE, role |-> "user"]

\* request_access has just created the entry of an email that had none
C8_Witness ==
    /\ call.op = "request_access" /\ call.before = {} /\ ret.success
    /\ HasRow(whitelist_users, call.email)

\* C9: request_access, answered, on an email that has an entry returns success
\* with status pending (entry not active) or active (entry active) and leaves
\* that one entry as it was.
C9_RequestIdempotent ==
    (/\ call.op = "request_access" /\ client /\ ~call.failed
     /\ call.before # {})
    => /\ Matching(whitelist_users, call.email) = call.before
       /\ Cardinality(call.before) = 1
       /\ ret.success
       /\ ret.status = IF RowOf(whitelist_users, call.email).is_active
                       THEN "active" ELSE "pending"

\* request_access was called on a pending email
C9_Witness ==
    /\ call.op = "request_access" /\ client /\ ~call.failed
    /\ call.before # {}
    /\ ~RowOf(whitelist_users, call.email).is_active
    /\ ret.status = "pending"

\* C10: an insert of request_access that meets the entry another caller has
\* stored meanwhile is answered success with status pending.
C10_ConflictIsPending ==
    (/\ call.op = "request_access" /\ call.inserting /\ ~call.failed
     /\ call.before # {})
    => (ret.success /\ ret.status = "pending")

\* C11: approve_user, answered, on an email that has an entry returns success
\* and leaves that entry active with everything else as it was: a pending entry
\* becomes active, an active entry is unchanged; check_status then answers
\* is_active=true.
C11_ApproveActivates ==
    (/\ call.op = "approve_user" /\ client /\ ~call.failed
     /\ call.before # {})
    => /\ ret.is_dict /\ ret.success
       /\ check_email_in_whitelist(client, whitelist_users, call.email, FALSE).is_active
       /\ Matching(whitelist_users, call.email)
             = {[r EXCEPT !.is_active = TRUE] : r \in call.before}

\* approve_user has just activated a pending entry
C11_Witness ==
    /\ call.op = "approve_user" /\ client /\ ~call.failed
    /\ \E r \in call.before : ~r.is_active
    /\ ret.is_dict /\ ret.success
    /\ RowOf(whitelist_users, call.email).is_active

\* C12: approve_user (as the approve button of the admin panel calls it) on
\* an email without entry reports failure and creates no entry, and the button
\* shows an error, never a success, when the entry was not found or its update
\* failed.
C12_ApproveFailureIsReported ==
    /\ (call.op = "approve_button" /\ call.before = {}) =>
          /\ ~HasRow(whitelist_users, call.email)
          /\ ret.result.is_dict => ~ret.result.success
    /\ (call.op = "approve_button" /\ (call.before = {} \/ call.failed)) =>
          ret.shown = "error"

\* C13: reject_user and remove_email_from_whitelist, answered, return success
\* and leave the table without any entry of the email and otherwise as it was,
\* whatever state the entry was in and also when there was none; a second
\* application returns success again and changes nothing.
C13_RemoveDeletesIdempotent ==
    [][(/\ call'.op \in {"remove_email_from_whitelist", "reject_user"}
        /\ client /\ ~call'.failed /\ call'.email # "")
       => /\ ret' = TRUE
          /\ whitelist_users' = {r \in whitelist_users : r.email # call'.email}
          /\ remove_email_from_whitelist(client, whitelist_users', call'.email, FALSE)
                = [ret |-> TRUE, tbl |-> whitelist_users']
          /\ reject_user(client, whitelist_users', call'.email, FALSE)
                = [ret |-> TRUE, tbl |-> whitelist_users']]_vars

\* an email whose entry had recorded usage and was deleted has been removed
\* once more, with success
C13_Witness ==
    /\ call.op \in {"remove_email_from_whitelist", "reject_user"}
    /\ client /\ ~call.failed /\ call.email # ""
    /\ call.before = {} /\ added[call.email] > 0
    /\ ret = TRUE /\ ~HasRow(whitelist_users, call.email)

\* C14: after reject_user, answered, no entry of the email remains, and a
\* request_access that follows it with success leaves exactly one entry of the
\* email, pending, with role user, no usage and the default limit, whatever the
\* rejected entry held.
C14_RejectThenRequestIsFresh ==
    /\ (call.op = "reject_user" /\ client /\ ~call.failed /\ call.email # "") =>
          ~HasRow(whitelist_users, call.email)
    /\ (call.op = "request_access" /\ call.replaces # {} /\ ret.success) =>
          Matching(whitelist_users, call.email)
              = {Row(call.email, "user", FALSE, 0, DefaultTokenLimit)}

\* a pending entry that had been given the role admin was rejected, and the
\* request that followed created a pending user
C14_Witness ==
    /\ call.op = "request_access" /\ ret.success
    /\ \E r \in call.replaces : ~r.is_active /\ r.role = "admin"
    /\ RowOf(whitelist_users, call.email) = Row(call.email, "user", FALSE, 0, DefaultTokenLimit)

\* the admission state of an email: NONE (never requested, or removed),
\* PENDING or ACTIVE
Admission(tbl, e) ==
    IF ~HasRow(tbl, e) THEN "NONE"
    ELSE IF RowOf(tbl, e).is_active THEN "ACTIVE" ELSE "PENDING"

\* C15 (as stated): every change of an email's admission state is NONE to
\* PENDING by request_access, PENDING to ACTIVE by approve_user, PENDING or
\* ACTIVE to NONE by reject_user / remove_email_from_whitelist, or NONE to
\* ACTIVE by add_email_to_whitelist.
C15_OnlyListedTransitions ==
    [][\A e \in Emails :
          LET a == Admission(whitelist_users, e)
              b == Admission(whitelist_users', e)
          IN  a # b =>
                /\ call'.email = e
                /\ \/ a = "NONE" /\ b = "PENDING" /\ call'.op = "request_access"
                   \/ a = "PENDING" /\ b = "ACTIVE" /\ call'.op = "approve_user"
                   \/ /\ a \in {"PENDING", "ACTIVE"} /\ b = "NONE"
                      /\ call'.op \in {"reject_user", "remove_email_from_whitelist"}
                   \/ a = "NONE" /\ b = "ACTIVE" /\ call'.op = "add_email_to_whitelist"]_vars

\* C15 (amended): as above, and add_email_to_whitelist also moves a PENDING
\* entry to ACTIVE; no operation moves an ACTIVE entry to PENDING and
\* request_access never leaves an entry ACTIVE that was not.
C15_TransitionsWithUpsert ==
    [][\A e \in Emails :
          LET a == Admission(whitelist_users, e)
              b == Admission(whitelist_users', e)
          IN  a # b =>
                /\ call'.email = e
                /\ \/ a = "NONE" /\ b = "PENDING" /\ call'.op = "request_access"
                   \/ a = "PENDING" /\ b = "ACTIVE" /\ call'.op = "approve_user"
                   \/ /\ a \in {"PENDING", "ACTIVE"} /\ b = "NONE"
                      /\ call'.op \in {"reject_user", "remove_email_from_whitelist"}
                   \/ /\ a \in {"NONE", "PENDING"} /\ b = "ACTIVE"
                      /\ call'.op = "add_email_to_whitelist"]_vars

\* add_email_to_whitelist has just made a pending entry active
C15_Witness ==
    /\ call.op = "add_email_to_whitelist"
    /\ \E r \in call.before : ~r.is_active
    /\ Admission(whitelist_users, call.email) = "ACTIVE"

C17_IsAdminFailsClosed ==
    call.op = "is_admin" =>
        /\ ret \in BOOLEAN
        /\ ret => \E r \in Matching(whitelist_users, call.email) : r.role = "admin"
        /\ (\/ ~HasRow(whitelist_users, call.email) \/ call.email = ""
            \/ ~client \/ call.failed) => ~ret
        /\ (/\ client /\ ~call.failed
            /\ \E r \in Matching(whitelist_users, call.email) : r.role = "admin") => ret

\* the lookup of a stored administrator raised and is_admin answered false
C17_Witness ==
    /\ call.op = "is_admin" /\ call.failed
    /\ \E r \in Matching(whitelist_users, call.email) : r.role = "admin"
    /\ ret = FALSE

\* C18: the login form submitted with an empty or malformed email reports the
\* invalid input without calling check_email_in_whitelist or request_access,
\* and leaves the table and the session as they were.
C18_InvalidEmailTouchesNothing ==
    (call.op = "show_login_form" /\ call.email \notin Emails) =>
        /\ ret.outcome = "invalid"
        /\ ~ret.checked /\ ~ret.requested
        /\ whitelist_users = call.table_before
        /\ session = call.session_before

\* the form was submitted with "bo@x" while the table held an entry
C18_Witness ==
    /\ call.op = "show_login_form" /\ call.email = "bo@x"
    /\ ret.outcome = "invalid"
    /\ whitelist_users # {}

\* C19: the login form submitted with a well-formed email, its datastore calls
\* answered, admits an entry its lookup finds ACTIVE (session: authenticated,
\* user_email, is_admin = the role is admin), reports PENDING for one it finds
\* pending and changes nothing, and for an email without entry calls
\* request_access and reports the request created without authenticating (an
\* entry stored since the form's lookup is reported as request_access finds
\* it, and the form never authenticates after calling request_access); and
\* the session becomes authenticated in no other step than a login that found
\* an active entry.
C19_LoginOutcomes ==
    [][/\ (/\ call'.op = "show_login_form" /\ call'.email \in Emails
           /\ client /\ ~call'.failed) =>
             LET a == Admission(call'.table_before, call'.email)
                 before == call'.session_before
             IN  /\ (call'.at = "form" /\ a = "ACTIVE") =>
                       /\ ret'.outcome = "admitted"
                       /\ whitelist_users' = call'.table_before
                       /\ session' = SetKeys(before,
                             [authenticated |-> TRUE, user_email |-> call'.email,
                              is_admin |-> AdminRow(call'.table_before, call'.email)])
                 /\ (call'.at = "form" /\ a = "PENDING") =>
                       /\ ret'.outcome = "pending"
                       /\ whitelist_users' = call'.table_before
                       /\ session' = before
                 /\ a = "NONE" =>
                       /\ call'.at = "insert"
                       /\ ret'.outcome = "requested" /\ ret'.requested
                       /\ ret'.success /\ ret'.status = "pending"
                       /\ Admission(whitelist_users', call'.email) = "PENDING"
                       /\ session' = before /\ ~IsAuthenticated(session')
                 /\ call'.at # "form" =>
                       /\ ret'.outcome = "requested" /\ ret'.requested
                       /\ session' = before /\ ~IsAuthenticated(session')
                 /\ (call'.at = "request" /\ a # "NONE") =>
                       /\ ret'.success
                       /\ ret'.status = IF a = "ACTIVE" THEN "active" ELSE "pending"
                       /\ whitelist_users' = call'.table_before
       /\ (~IsAuthenticated(session) /\ IsAuthenticated(session')) =>
             /\ call'.op = "show_login_form" /\ ret'.outcome = "admitted"
             /\ Admission(whitelist_users, call'.email) = "ACTIVE"
             /\ session'["user_email"] = call'.email]_vars

\* an administrator has just been admitted
C19_Witness ==
    /\ call.op = "show_login_form" /\ ret.outcome = "admitted"
    /\ IsAuthenticated(session)
    /\ session["user_email"] = call.email /\ session["is_admin"]
    /\ RowOf(whitelist_users, call.email).role = "admin"

\* C20: after logout none of the keys authenticated, user_email and is_admin
\* is set in the session, and a login of an email that is not an administrator
\* never leaves is_admin = true in the session.
C20_LogoutClearsIdentity ==
    /\ call.op = "logout" =>
          DOMAIN session \cap {"authenticated", "user_email", "is_admin"} = {}
    /\ (/\ call.op = "show_login_form"
        /\ ~\E r \in Matching(whitelist_users, call.email) : r.role = "admin") =>
          ~("is_admin" \in DOMAIN session /\ session["is_admin"])

\* C21: update_token_usage whose read of the counter or whose write failed
\* returns false and leaves the stored counter as it was.
C21_UpdateFailureIsReported ==
    (call.op = "update_token_usage" /\ call.failed_update) =>
        /\ ret = FALSE
        /\ Matching(whitelist_users, call.email) = call.before

\* C22: the admission check of a non-admin email fails open.  When its read of
\* the usage raised it allows the request, with usage zero and no limit; for an
\* entry that records no usage yet (tokens_used NULL) it counts zero usage and
\* allows every request within the entry's limit; and when the client library
\* answers a read that matches no row with None, the email without entry is
\* allowed as after a read that raised.
C22_CheckFailsOpen ==
    (/\ call.op = "check_token_usage" /\ client /\ call.email # ""
     /\ ~\E r \in Matching(whitelist_users, call.email) : r.role = "admin")
    => /\ call.failed_read =>
             /\ ret.can_proceed /\ ret.tokens_used = 0 /\ ret.tokens_limit = Infinity
       /\ (/\ ~call.failed /\ HasRow(whitelist_users, call.email)
           /\ RowOf(whitelist_users, call.email).tokens_used = Null) =>
             /\ ret.tokens_used = 0
             /\ call.required_tokens <= LimitOf(RowOf(whitelist_users, call.email))
                   => ret.can_proceed
       /\ (~call.failed /\ ~HasRow(whitelist_users, call.email) /\ zero_rows = "None") =>
             /\ ret.can_proceed /\ ret.tokens_used = 0 /\ ret.tokens_limit = Infinity

\* bo@x.io was added by an administrator, its entry records no usage yet, and a
\* request for 150 tokens has been allowed with usage zero
C22_Witness ==
    /\ call.op = "check_token_usage" /\ client /\ ~call.failed
    /\ call.email = "bo@x.io" /\ call.required_tokens = 150
    /\ HasRow(whitelist_users, "bo@x.io")
    /\ RowOf(whitelist_users, "bo@x.io").role # "admin"
    /\ RowOf(whitelist_users, "bo@x.io").tokens_used = Null
    /\ ret.can_proceed /\ ret.tokens_used = 0

\* C23: after reset_token_usage succeeded for a non-admin user, the status read
\* of that email shows tokens_used = 0.
C23_ResetZeroesCounter ==
    (/\ call.op = "reset_token_usage" /\ ret = TRUE
     /\ HasRow(whitelist_users, call.email)
     /\ RowOf(whitelist_users, call.email).role # "admin")
    => check_token_usage_read(whitelist_users, call.email, 0, FALSE).tokens_used = 0

\* C24: after update_token_limit(email, L) succeeded for a non-admin user, the
\* admission check of that email applies the limit L.
C24_UpdatedLimitDecides ==
    (/\ call.op = "update_token_limit" /\ ret = TRUE
     /\ HasRow(whitelist_users, call.email)
     /\ RowOf(whitelist_users, call.email).role # "admin")
    => check_token_usage_read(whitelist_users, call.email, 0, FALSE).tokens_limit
          = call.new_limit

\* C25: however two update_token_usage calls on one email interleave, once
\* both have returned the stored counter is the initial value plus every amount
\* whose write was applied.
C25_NoLostUpdate ==
    (\A c \in Callers : pc[c] = "idle") =>
        \A e \in Emails :
            HasRow(whitelist_users, e) => StoredUsage(whitelist_users, e) = added[e]

\* C26: a generate_tour_text call that returned a tour has reported the
\* response's total token count to the ledger, once; a call that raised,
\* because the check denied it or because the generation API failed, has
\* reported nothing.
C26_OneReportPerConsumption ==
    call.op = "generate_tour_text" =>
        /\ (ret.api_called /\ ~ret.raised) =>
               (ret.reported /\ ret.reported_tokens = call.total_tokens)
        /\ ret.raised => (~ret.reported /\ ret.reported_tokens = 0)

\* the result each method of the manager gives when it declines to act
ClosedResult ==
    CASE call.op = "check_email_in_whitelist" -> ret = NotInWhitelist
      [] call.op = "is_admin" -> ret = FALSE
      [] call.op = "request_access" ->
            ret = ErrorResponse("Error de configuracion del sistema")
      [] call.op = "approve_user" ->
            ret = ApproveResult(FALSE, "Parametros invalidos", NoUser)
      [] call.op \in {"get_all_whitelist_emails", "get_pending_approvals",
                      "get_all_token_usage"} ->
            ret = {}
      [] call.op \in {"add_email_to_whitelist", "remove_email_from_whitelist",
                      "add_to_whitelist", "remove_from_whitelist",
                      "reject_user", "update_user_role", "update_token_usage",
                      "update_token_limit", "reset_token_usage"} ->
            ret = FALSE
      [] call.op = "check_token_usage" ->
            ret = [can_proceed |-> FALSE, reason |-> "Error de autenticacion"]
      [] OTHER -> FALSE

\* C27: a manager built while SUPABASE_URL or SUPABASE_ANON_KEY is missing has
\* no client.  Without a client no run of main() gets past the construction,
\* no method comes to a datastore call, and every method called on the manager
\* leaves the three tables as they are and returns its declining result: not
\* in the whitelist, not admin, an error response, False, the empty list, or
\* can_proceed False.
C27_NoClientFailsClosed ==
    /\ []((~environ.SUPABASE_URL \/ ~environ.SUPABASE_ANON_KEY) => ~client)
    /\ [](~client => (Quiet /\ call.op # "main"))
    /\ [][~client =>
            /\ whitelist_users' = whitelist_users
            /\ user_token_usage' = user_token_usage
            /\ whitelist' = whitelist
            /\ ClosedResult']_vars

\* the access key is missing, ana@x.io is stored as a user, and the manager
\* has answered get_all_whitelist_emails with the empty list
C27_Witness ==
    /\ environ.SUPABASE_URL /\ ~environ.SUPABASE_ANON_KEY
    /\ ~client
    /\ call.op = "get_all_whitelist_emails"
    /\ HasRow(whitelist_users, "ana@x.io")
    /\ ret = {}

\* C28: an answered update_token_usage for an email stored as admin returns
\* True and leaves the whole table as it was, and a change of role by
\* update_user_role leaves every stored counter as it was: the counter of an
\* email that stops being admin holds what was recorded while it was not admin.
C28_AdminReportsSkipped ==
    [][/\ (/\ call'.op = "update_token_usage" /\ client /\ ~call'.failed
           /\ AdminRow(whitelist_users, call'.email))
          => (ret' = TRUE /\ whitelist_users' = whitelist_users)
       /\ (call'.op = "update_user_role" /\ ~call'.failed)
          => \A e \in Emails :
                /\ HasRow(whitelist_users', e) = HasRow(whitelist_users, e)
                /\ StoredUsage(whitelist_users', e) = StoredUsage(whitelist_users, e)]_vars

\* ana@x.io, stored as admin with the 900 tokens counted while it was a user,
\* has reported 900 more and the counter still shows 900
C28_Witness ==
    /\ call.op = "update_token_usage" /\ client /\ ~call.failed
    /\ call.email = "ana@x.io" /\ call.tokens_used = 900
    /\ AdminRow(whitelist_users, "ana@x.io")
    /\ \E r \in call.before : r.role = "admin"
    /\ ret = TRUE
    /\ StoredUsage(whitelist_users, "ana@x.io") = 900

\* C29: the admission check, answered, for an email stored with a role other
\* than admin and token_limit 0 allows the request, whatever the counter and
\* the amount asked for.
C29_ZeroLimitIsUnlimited ==
    (/\ call.op = "check_token_usage" /\ client /\ ~call.failed
     /\ HasRow(whitelist_users, call.email)
     /\ RowOf(whitelist_users, call.email).role # "admin"
     /\ RowOf(whitelist_users, call.email).token_limit = 0)
    => ret.can_proceed

\* the model after m in available_models, the first one after the last
Following(m) ==
    LET j == CHOOSE i \in 1..Len(available_models) : available_models[i] = m
    IN  available_models[IF j = Len(available_models) THEN 1 ELSE j + 1]

\* C30: generate_text returns a string and does not raise; its first request
\* goes to the current model and each further one, made only after the one
\* before it failed, to the following model of available_models in cyclic
\* order; it makes at most max_retries + 1 requests, returns the generated text
\* of the first that succeeds and the apology when max_retries + 1 have failed;
\* current_model is at all times one of available_models.  The same holds of
\* generate_text started on any model of the list, not only on the first, on
\* which every run of the script starts it.
C30_GenerateTextReturns ==
    /\ \E i \in 1..Len(available_models) : generator.current_model = available_models[i]
    /\ call.op = "generate_text" =>
         LET n == Len(ret.requests) IN
         /\ ~ret.raised
         /\ ret.response \in {"generated", Apology}
         /\ n >= 1 /\ n <= call.max_retries + 1
         /\ ret.requests[1] = call.model_before
         /\ \A i \in 1..(n - 1) :
               /\ ~call.outcomes[i]
               /\ ret.requests[i + 1] = Following(ret.requests[i])
         /\ ret.response = "generated" <=> call.outcomes[n]
         /\ ret.response = Apology <=>
               (n = call.max_retries + 1 /\ \A i \in 1..n : ~call.outcomes[i])
         /\ generator.current_model = ret.requests[n]
    /\ \A i \in 1..Len(available_models), k \in 0..MaxRetries,
          o \in [1..(MaxRetries + 1) -> BOOLEAN] :
          LET r == generate_text(available_models[i], k, o)
              n == Len(r.requests)
          IN  /\ ~r.raised
              /\ r.response \in {"generated", Apology}
              /\ n >= 1 /\ n <= k + 1
              /\ r.requests[1] = available_models[i]
              /\ \A j \in 1..(n - 1) : r.requests[j + 1] = Following(r.requests[j])
              /\ r.current_model = r.requests[n]

\* called with max_retries 3, generate_text has asked four models in turn,
\* the first of the list again after the last, and returned the apology
C30_Witness ==
    /\ call.op = "generate_text" /\ call.max_retries = 3
    /\ call.model_before = "gpt2"
    /\ ret.requests = <<"gpt2", "distilgpt2", "facebook/opt-350m", "gpt2">>
    /\ ret.response = Apology
    /\ generator.current_model = "gpt2"

====
